---- MODULE Spec2Model ----
(***************************************************************************)
(* Chunked file transfer over an unordered, lossy RTCDataChannel           *)
(* (frontend/src/components/FileTransferForm.tsx).                         *)
(*                                                                         *)
(* One endpoint (the sender) runs handleSubmit / sendFileInChunks, the     *)
(* pump processSendQueue, the watchdog checkForTimeouts, the completion    *)
(* poll checkComplete and handleChunkAck.  The other endpoint (the         *)
(* receiver) runs handleFileStart, handleFileChunk, assembleAndSaveFile    *)
(* and handleFileComplete.  The data channel is created with               *)
(* ordered: false, so messages in flight form a bag that is delivered in   *)
(* any order; a message may be lost and the channel may close.             *)
(*                                                                         *)
(* Time is abstracted to what the code compares Date.now() with:           *)
(*   - ackAge    : class of (now - lastAckTimeRef): 0 is < 50 ms,          *)
(*                 1 is 50..200 ms, 2 is > 200 ms;                         *)
(*   - expired   : per pending chunk, now - timestamp > CHUNK_TIMEOUT.     *)
(* Byte counts are scaled: CHUNK_SIZE is 2 bytes instead of 131072 and     *)
(* MAX_BUFFER_SIZE is 2 chunks instead of 4, so that a file of two chunks  *)
(* and one retransmission fill the channel's buffer; the 256 header bytes  *)
(* (0.2 % of a chunk) are not counted in bufferedAmount.  bufferedAmount   *)
(* is counted in units of 1/BufferScale of a file byte, so that there are  *)
(* amounts between 90 % of MAX_BUFFER_SIZE and MAX_BUFFER_SIZE.            *)
(***************************************************************************)
EXTENDS Integers, Sequences, FiniteSets, Bags, TLC

\* ---------------------------------------------------------------- bounds
CHUNK_SIZE == 2
MaxFileSize == 3
MaxDrops == 1
MaxElapse == 1
MaxQueue == 4
MaxTransfers == 2
MaxAckIndex == 1
MaxNameExcess == 1
MaxCorrupt == 1
MaxSliceSize == 5
MaxSockets == 3
BufferScale == 3
MaxPumpSize == 7

\* ------------------------------------------------------ program constants
MAX_BUFFER_SIZE == 2 * CHUNK_SIZE * BufferScale
INITIAL_WINDOW_SIZE == 64
MAX_WINDOW_SIZE == 128
MIN_WINDOW_SIZE == 16
MAX_FILENAME_LENGTH == 201
HEADER_SIZE == 256
MAX_RETRIES == 3
\* The steps by which handleChunkAck raises and lowers the window.
WINDOW_INCREASE == 8
WINDOW_DECREASE == 4

MESSAGE_TYPES == [FILE_START |-> 0, FILE_CHUNK |-> 1, CHUNK_ACK |-> 2, FILE_COMPLETE |-> 3]

Min(a, b) == IF a < b THEN a ELSE b
Max(a, b) == IF a > b THEN a ELSE b

\* Math.ceil(a / b) for a >= 0, b > 0
Ceil(a, b) == (a + b - 1) \div b

\* currentFileIdRef.current = null.  The fileId of a transfer is modelled by
\* the number of the sendFileInChunks call that made it (the code draws
\* Date.now() plus a random suffix).
NoFileId == 0

\* ------------------------------------------------------------------ state
VARIABLES
    file,               \* the File handed to handleSubmit: [name, bytes]
    transferNo,         \* number of sendFileInChunks calls so far; the latest fileId
    peerModelled,       \* TRUE: the remote endpoint runs this code; FALSE: it is the environment
    sendState,          \* position of handleSubmit/sendFileInChunks
    promise,            \* the promise sendFileInChunks returned
    timeoutChecker,     \* the setInterval(checkForTimeouts, 500) is active
    pumpTimer,          \* a setTimeout(processSendQueue) is pending
    isSending,          \* isSendingRef.current
    currentFileId,      \* currentFileIdRef.current
    sendQueue,          \* sendQueueRef.current, as chunk indices
    pendingChunks,      \* pendingChunksRef.current, in Map insertion order
    windowSize,         \* windowSizeRef.current
    ackAge,             \* class of Date.now() - lastAckTimeRef.current
    readyState,         \* dataChannelRef.current.readyState
    bufferedAmount,     \* dataChannelRef.current.bufferedAmount (sender side)
    net,                \* bag of encoded messages in flight
    fileReceiveBuffers, \* fileReceiveBuffers.current of the receiver
    savedFiles,         \* what the receiver handed to saveFile, in order
    codec,              \* a message taken through encodeBinaryMessage / decodeBinaryMessage
    peers,              \* signalling server: the registry, deviceId -> [socketId, publicIp]
    sockets,            \* signalling server: every socket so far, [deviceId, ip, connected]
    learned,            \* per socket, the socket ids the server has told it about
    relayed,            \* the last offer / answer / ice-candidate the server relayed
    updates,            \* the peersUpdated broadcasts on their way to the local client, by
                        \* the deviceId whose connection or disconnection caused them
    hist                \* history of the run (observation only)

senderVars == <<sendState, promise, timeoutChecker, pumpTimer, isSending,
                currentFileId, sendQueue, pendingChunks, windowSize, ackAge>>
chanVars == <<readyState, bufferedAmount, net>>
recvVars == <<fileReceiveBuffers, savedFiles>>
serverVars == <<peers, sockets, learned, relayed, updates>>
clientVars == <<file, transferNo, peerModelled, senderVars, chanVars, recvVars, codec, hist>>
vars == <<file, transferNo, peerModelled, senderVars, chanVars, recvVars, codec, serverVars, hist>>

\* A Map with no entry.
EmptyMap == [k \in {} |-> 0]

\* ------------------------------------------------------------- the file
\* Files have distinct non-zero bytes, so a misplaced or missing chunk shows.
FileOfSize(n) == [name |-> <<7>>, bytes |-> [i \in 1..n |-> i]]

\* (variant: at least one chunk for every file)
TotalChunksAtLeastOne(f) == Max(1, Ceil(Len(f.bytes), CHUNK_SIZE))

\* (variant: the quotient rounded down)
TotalChunksFloor(f) == Len(f.bytes) \div CHUNK_SIZE

\* Math.ceil(file.size / CHUNK_SIZE)
TotalChunks(f) == Ceil(Len(f.bytes), CHUNK_SIZE)

\* file.slice(start, end) of chunk chunkIndex
ChunkData(f, chunkIndex) ==
    LET start == chunkIndex * CHUNK_SIZE
        end == Min(start + CHUNK_SIZE, Len(f.bytes))
    IN SubSeq(f.bytes, start + 1, end)

\* ----------------------------------------------------------- wire codec
\* Byte layout of the header: where encodeBinaryMessage writes each field
\* and decodeBinaryMessage reads it.
TYPE_OFFSET == 0
FILE_ID_OFFSET == 1
FILE_ID_LENGTH == 36
CHUNK_INDEX_OFFSET == 37
TOTAL_CHUNKS_OFFSET == 41
FILE_SIZE_OFFSET == 45
NAME_LENGTH_OFFSET == 53
NAME_OFFSET == 55
HASH_OFFSET == 256
HASH_LENGTH == 64

\* has(k) tells whether message m defines field k.
Has(m, k) == k \in DOMAIN m

\* What encodeBinaryMessage gives when a DataView write is out of bounds.
EncodeThrows == [type |-> -1, byteLength |-> 0]

\* encodeBinaryMessage: the buffer as its byteLength and the fields its
\* bytes hold.  A field the message does not define stays zero; the name is
\* cut to MAX_FILENAME_LENGTH and written from NAME_OFFSET; the hash, when
\* the message defines one, is written from HASH_OFFSET into a header of
\* HEADER_SIZE bytes, and setUint8 throws a RangeError on the first byte that
\* lies outside the header.  The payload follows the header.  Field values
\* of the model stay far below 2^32, so the width of the integer fields does
\* not show.
encodeBinaryMessage(m) ==
    LET fileNameBytes == IF Has(m, "fileName")
                         THEN SubSeq(m.fileName, 1, Min(Len(m.fileName), MAX_FILENAME_LENGTH))
                         ELSE <<>>
    IN IF \/ Has(m, "fileHash") /\ HASH_OFFSET + HASH_LENGTH > HEADER_SIZE
          \/ NAME_OFFSET + Len(fileNameBytes) > HEADER_SIZE
       THEN EncodeThrows
       ELSE [byteLength |-> HEADER_SIZE + (IF Has(m, "payload") THEN Len(m.payload) ELSE 0),
             type |-> m.type,
             fileId |-> m.fileId,
             chunkIndex |-> IF Has(m, "chunkIndex") THEN m.chunkIndex ELSE 0,
             totalChunks |-> IF Has(m, "totalChunks") THEN m.totalChunks ELSE 0,
             fileSize |-> IF Has(m, "fileSize") THEN m.fileSize ELSE 0,
             fileNameLength |-> IF Has(m, "fileName")
                                THEN Min(Len(fileNameBytes), MAX_FILENAME_LENGTH)
                                ELSE 0,
             fileName |-> fileNameBytes,
             payload |-> IF Has(m, "payload") THEN m.payload ELSE <<>>]

\* What decodeBinaryMessage gives when a DataView or a typed array read is
\* out of bounds (a RangeError).
DecodeThrows == [type |-> -1]

\* The k bytes from NAME_OFFSET: the name written, then zero bytes.
NameBytes(w, k) == [i \in 1..k |-> IF i <= Len(w.fileName) THEN w.fileName[i] ELSE 0]

\* The bytes from HEADER_SIZE to the end of the buffer.
PayloadBytes(w) == SubSeq(w.payload, 1, Min(Len(w.payload), w.byteLength - HEADER_SIZE))

\* decodeBinaryMessage: every read needs its bytes inside the buffer.  type
\* and fileId are read for every message, chunkIndex for FILE_CHUNK and
\* CHUNK_ACK, totalChunks, fileSize and fileName for FILE_START and
\* FILE_CHUNK, the hash for FILE_COMPLETE, the payload for a FILE_CHUNK
\* longer than the header.  A type tag outside MESSAGE_TYPES gives a message
\* of type and fileId only.
decodeBinaryMessage(w) ==
    LET isStart == w.type = MESSAGE_TYPES.FILE_START
        isChunk == w.type = MESSAGE_TYPES.FILE_CHUNK
        isAck == w.type = MESSAGE_TYPES.CHUNK_ACK
        isComplete == w.type = MESSAGE_TYPES.FILE_COMPLETE
        nameLength == Min(w.fileNameLength, MAX_FILENAME_LENGTH)
        base == [type |-> w.type, fileId |-> w.fileId]
        index == IF isChunk \/ isAck THEN [chunkIndex |-> w.chunkIndex] ELSE EmptyMap
        meta == IF isStart \/ isChunk
                THEN [totalChunks |-> w.totalChunks, fileSize |-> w.fileSize,
                      fileName |-> NameBytes(w, nameLength)]
                ELSE EmptyMap
        hash == IF isComplete
                THEN [fileHash |-> SelectSeq(SubSeq(w.payload, 1, Min(Len(w.payload), HASH_LENGTH)),
                                             LAMBDA c : c # 0)]
                ELSE EmptyMap
        payload == IF isChunk /\ w.byteLength > HEADER_SIZE
                   THEN [payload |-> PayloadBytes(w)]
                   ELSE EmptyMap
    IN IF \/ w.byteLength < TYPE_OFFSET + 1
          \/ w.byteLength < FILE_ID_OFFSET + FILE_ID_LENGTH
          \/ (isChunk \/ isAck) /\ w.byteLength < CHUNK_INDEX_OFFSET + 4
          \/ (isStart \/ isChunk) /\ \/ w.byteLength < TOTAL_CHUNKS_OFFSET + 4
                                     \/ w.byteLength < FILE_SIZE_OFFSET + 8
                                     \/ w.byteLength < NAME_LENGTH_OFFSET + 2
                                     \/ w.byteLength < NAME_OFFSET + nameLength
          \/ isComplete /\ w.byteLength < HASH_OFFSET + HASH_LENGTH
       THEN DecodeThrows
       ELSE base @@ index @@ meta @@ hash @@ payload

\* The messages sendFileInChunks, processSendQueue and handleFileChunk build.
StartMessage(f, fileId) ==
    [type |-> MESSAGE_TYPES.FILE_START, fileId |-> fileId, fileName |-> f.name,
     fileSize |-> Len(f.bytes), totalChunks |-> TotalChunks(f)]

ChunkMessage(f, fileId, chunkIndex) ==
    [type |-> MESSAGE_TYPES.FILE_CHUNK, fileId |-> fileId, chunkIndex |-> chunkIndex,
     totalChunks |-> TotalChunks(f), fileSize |-> Len(f.bytes), fileName |-> f.name,
     payload |-> ChunkData(f, chunkIndex)]

\* (variant: the ack does not echo the chunk's index)
AckMessageNoIndex(fileId, chunkIndex) ==
    [type |-> MESSAGE_TYPES.CHUNK_ACK, fileId |-> fileId, chunkIndex |-> 0]

AckMessage(fileId, chunkIndex) ==
    [type |-> MESSAGE_TYPES.CHUNK_ACK, fileId |-> fileId, chunkIndex |-> chunkIndex]

CompleteMessage(f, fileId) ==
    [type |-> MESSAGE_TYPES.FILE_COMPLETE, fileId |-> fileId, fileName |-> f.name]

\* dataChannel.send(bytes): the message joins the bag in flight.
ChannelSend(n, m) == IF peerModelled THEN n (+) SetToBag({encodeBinaryMessage(m)}) ELSE n

\* The FileChunk messages of chunks idxs of transfer fileId, sent in order.
RECURSIVE SendAll(_, _, _, _)
SendAll(n, f, fileId, idxs) ==
    IF idxs = <<>> THEN n
    ELSE SendAll(ChannelSend(n, ChunkMessage(f, fileId, Head(idxs))), f, fileId, Tail(idxs))

SeqToSet(s) == {s[i] : i \in DOMAIN s}

\* ------------------------------------------- pendingChunksRef (a JS Map)
\* Entries are kept in insertion order, the order Map.forEach visits them.
PendingKeys(p) == {p[i].chunkIndex : i \in DOMAIN p}

\* Map.set: an existing key keeps its position, a new key goes last.
PendingSet(p, k, v) ==
    IF k \in PendingKeys(p)
    THEN [i \in DOMAIN p |-> IF p[i].chunkIndex = k THEN v ELSE p[i]]
    ELSE Append(p, v)

\* Map.delete
PendingDelete(p, k) == SelectSeq(p, LAMBDA e : e.chunkIndex # k)

PendingEntry(k, expired, retries) ==
    [chunkIndex |-> k, expired |-> expired, retries |-> retries]

\* ------------------------------------------------------ processSendQueue
\* What a FileChunk adds to bufferedAmount (payload only, see the header note).
MessageBytes(f, chunkIndex) == Len(ChunkData(f, chunkIndex)) * BufferScale

\* The retries of the pending entry of chunk k, 0 when there is none.
RetriesOf(p, k) ==
    IF k \in PendingKeys(p)
    THEN (CHOOSE e \in SeqToSet(p) : e.chunkIndex = k).retries
    ELSE 0

\* (variant: a resend keeps the retries its pending entry has)
RECURSIVE PumpLoopKeepsRetries(_, _, _, _, _, _)
PumpLoopKeepsRetries(f, q, p, w, b, sent) ==
    IF Len(q) > 0 /\ Len(p) < w /\ b < MAX_BUFFER_SIZE
    THEN LET chunk == Head(q)
         IN PumpLoopKeepsRetries(f, Tail(q),
                                 PendingSet(p, chunk, PendingEntry(chunk, FALSE, RetriesOf(p, chunk))),
                                 w, b + MessageBytes(f, chunk), Append(sent, chunk))
    ELSE [queue |-> q, pending |-> p, buffered |-> b, sent |-> sent]

\* The while loop of processSendQueue: shift a chunk, send it, record it as
\* pending with timestamp now and retries 0.
RECURSIVE PumpLoop(_, _, _, _, _, _)
PumpLoop(f, q, p, w, b, sent) ==
    IF Len(q) > 0 /\ Len(p) < w /\ b < MAX_BUFFER_SIZE
    THEN LET chunk == Head(q)
         IN PumpLoop(f, Tail(q), PendingSet(p, chunk, PendingEntry(chunk, FALSE, 0)),
                     w, b + MessageBytes(f, chunk), Append(sent, chunk))
    ELSE [queue |-> q, pending |-> p, buffered |-> b, sent |-> sent]

\* 90% of MAX_BUFFER_SIZE is exceeded
AboveWatermark(b) == b * 10 > MAX_BUFFER_SIZE * 9

\* (variant: the loop does not consult the window)
processSendQueueNoWindow(f, q, p, w, b, open, sending) ==
    IF ~open \/ ~sending
    THEN [queue |-> q, pending |-> p, buffered |-> b, sent |-> <<>>, again |-> FALSE]
    ELSE IF AboveWatermark(b)
    THEN [queue |-> q, pending |-> p, buffered |-> b, sent |-> <<>>, again |-> TRUE]
    ELSE LET r == PumpLoop(f, q, p, Len(p) + Len(q) + 1, b, <<>>)
         IN [queue |-> r.queue, pending |-> r.pending, buffered |-> r.buffered,
             sent |-> r.sent, again |-> Len(r.queue) > 0 /\ sending]

\* processSendQueue as a function of the refs it reads: the new queue, pending
\* map and bufferedAmount, the chunks handed to the channel, and whether it
\* scheduled itself again with setTimeout.
processSendQueue(f, q, p, w, b, open, sending) ==
    IF ~open \/ ~sending
    THEN [queue |-> q, pending |-> p, buffered |-> b, sent |-> <<>>, again |-> FALSE]
    ELSE IF AboveWatermark(b)
    THEN [queue |-> q, pending |-> p, buffered |-> b, sent |-> <<>>, again |-> TRUE]
    ELSE LET r == PumpLoop(f, q, p, w, b, <<>>)
         IN [queue |-> r.queue, pending |-> r.pending, buffered |-> r.buffered,
             sent |-> r.sent, again |-> Len(r.queue) > 0 /\ sending]

\* bufferedAmount right before the i-th send of a pump run that sent the
\* chunks sent, starting from bufferedAmount b.
RECURSIVE BufferedBefore(_, _, _, _)
BufferedBefore(f, sent, b, i) ==
    IF i <= 1 THEN b
    ELSE BufferedBefore(f, sent, b, i - 1) + MessageBytes(f, sent[i - 1])

\* How often chunk c has been handed to the channel in this transfer after
\* the sends of one more pump run; the count is kept up to MAX_RETRIES + 2.
Handed(h, sent, c) ==
    Min(MAX_RETRIES + 2,
        (IF c \in DOMAIN h.handed THEN h.handed[c] ELSE 0)
        + Cardinality({i \in DOMAIN sent : sent[i] = c}))

\* History kept for the properties: which chunks were handed to the channel
\* at least once and which more than once, how often each in this transfer,
\* and whether a chunk was handed over while bufferedAmount was above the
\* watermark.
NoteSent(h, sent) ==
    [h EXCEPT !.resent = @ \cup {c \in SeqToSet(sent) :
                                    c \in h.sentOnce
                                    \/ Cardinality({i \in DOMAIN sent : sent[i] = c}) > 1},
              !.sentOnce = @ \cup SeqToSet(sent),
              !.handed = [c \in DOMAIN @ \cup SeqToSet(sent) |-> Handed(h, sent, c)],
              !.sentAboveWatermark = @ \/ \E i \in DOMAIN sent :
                                           AboveWatermark(BufferedBefore(file, sent, bufferedAmount, i))]

\* The refs after a call of processSendQueue with queue q, pending p, window w,
\* n being the messages in flight.
RunPump(q, p, w, h, n) ==
    LET r == processSendQueue(file, q, p, w, bufferedAmount, readyState = "open", isSending)
    IN /\ sendQueue' = r.queue
       /\ pendingChunks' = r.pending
       /\ bufferedAmount' = r.buffered
       /\ net' = SendAll(n, file, transferNo, r.sent)
       /\ pumpTimer' = (pumpTimer \/ r.again)
       /\ hist' = NoteSent(h, r.sent)

\* ------------------------------------------------------------------ Init
Files == {FileOfSize(n) : n \in 0..MaxFileSize}

\* No message is being taken through the codec.
NoCodec == [pc |-> "off"]

InitHist ==
    [starts |-> 0, corrupts |-> 0, sentOnce |-> {}, resent |-> {}, drops |-> 0, chunkDrops |-> 0, elapses |-> 0,
     windowReduced |-> FALSE, completes |-> 0, delivered |-> {}, startHandled |-> FALSE,
     startAfterChunk |-> FALSE, reverse |-> TRUE, closedWhileSending |-> FALSE,
     sentAboveWatermark |-> FALSE, acked |-> {}, exhausted |-> {},
     handed |-> EmptyMap]

InitProtocol(f, modelled) ==
    /\ file = f
    /\ transferNo = 0
    /\ peerModelled = modelled
    /\ sendState = "idle"
    /\ promise = "none"
    /\ timeoutChecker = FALSE
    /\ pumpTimer = FALSE
    /\ isSending = FALSE
    /\ currentFileId = NoFileId
    /\ sendQueue = <<>>
    /\ pendingChunks = <<>>
    /\ windowSize = INITIAL_WINDOW_SIZE
    /\ ackAge = 0
    /\ readyState = "open"
    /\ bufferedAmount = 0
    /\ net = EmptyBag
    /\ fileReceiveBuffers = EmptyMap
    /\ savedFiles = <<>>
    /\ hist = InitHist

\* The signalling server has just started: nobody is connected.
NoRelay == [kind |-> "none"]

InitServer ==
    /\ peers = EmptyMap
    /\ sockets = <<>>
    /\ learned = <<>>
    /\ relayed = NoRelay
    /\ updates = {}

InitWith(f, modelled) ==
    /\ InitProtocol(f, modelled)
    /\ codec = NoCodec
    /\ InitServer

Init == \E f \in Files : InitWith(f, TRUE)

\* ------------------------------------------- handleSubmit, sendFileInChunks
\* handleSubmit calls sendFileInChunks.  With a channel that is not open it
\* throws "Data channel not ready" and handleSubmit's catch resets the refs.
\* Otherwise the refs are reset, FileStart is sent, and the function awaits
\* the FileReader once per chunk; with no chunk it runs on to the promise.
SendRest(q) ==
    /\ timeoutChecker' = TRUE
    /\ sendState' = "polling"
    /\ RunPump(q, <<>>, INITIAL_WINDOW_SIZE, hist, net)

sendFileInChunks ==
    /\ sendState = "idle"
    /\ UNCHANGED <<file, codec, serverVars, peerModelled, ackAge, readyState, recvVars>>
    /\ IF readyState # "open"
       THEN /\ sendState' = "settled"
            /\ UNCHANGED transferNo
            /\ promise' = "rejected"
            /\ isSending' = FALSE
            /\ currentFileId' = NoFileId
            /\ UNCHANGED <<timeoutChecker, pumpTimer, sendQueue, pendingChunks,
                           windowSize, bufferedAmount, net, hist>>
       ELSE /\ promise' = "pending"
            /\ transferNo' = transferNo + 1
            /\ currentFileId' = transferNo + 1
            /\ isSending' = TRUE
            /\ windowSize' = INITIAL_WINDOW_SIZE
            /\ IF TotalChunks(file) = 0
               THEN /\ timeoutChecker' = TRUE
                    /\ sendState' = "polling"
                    /\ sendQueue' = <<>>
                    /\ pendingChunks' = <<>>
                    /\ net' = ChannelSend(net, StartMessage(file, transferNo + 1))
                    /\ hist' = [hist EXCEPT !.starts = @ + 1, !.acked = {}, !.exhausted = {},
                                            !.handed = EmptyMap]
                    /\ UNCHANGED <<pumpTimer, bufferedAmount>>
               ELSE /\ sendState' = "preparing"
                    /\ sendQueue' = <<>>
                    /\ pendingChunks' = <<>>
                    /\ net' = ChannelSend(net, StartMessage(file, transferNo + 1))
                    /\ hist' = [hist EXCEPT !.starts = @ + 1, !.acked = {}, !.exhausted = {},
                                            !.handed = EmptyMap]
                    /\ UNCHANGED <<timeoutChecker, pumpTimer, bufferedAmount>>

\* The FileReader has delivered every chunk: sendFileInChunks fills the queue,
\* calls processSendQueue, starts the watchdog and returns the promise whose
\* executor schedules checkComplete.
PrepareDone ==
    /\ sendState = "preparing"
    /\ SendRest([i \in 1..TotalChunks(file) |-> i - 1])
    /\ UNCHANGED <<file, codec, serverVars, transferNo, peerModelled, promise, isSending, currentFileId, windowSize,
                   ackAge, readyState, recvVars>>

\* setTimeout(processSendQueue, ...) fires.
PumpTimerFires ==
    /\ pumpTimer
    /\ LET r == processSendQueue(file, sendQueue, pendingChunks, windowSize,
                                 bufferedAmount, readyState = "open", isSending)
       IN /\ sendQueue' = r.queue
          /\ pendingChunks' = r.pending
          /\ bufferedAmount' = r.buffered
          /\ net' = SendAll(net, file, transferNo, r.sent)
          /\ pumpTimer' = r.again
          /\ hist' = NoteSent(hist, r.sent)
    /\ UNCHANGED <<file, codec, serverVars, transferNo, peerModelled, sendState, promise, timeoutChecker, isSending,
                   currentFileId, windowSize, ackAge, readyState, recvVars>>

\* ----------------------------------------------------------- handleChunkAck
\* (variant: the increase not capped)
AckWindowNoCap(w, age) ==
    IF age = 0 THEN w + WINDOW_INCREASE
    ELSE IF age = 2 THEN Max(w - WINDOW_DECREASE, MIN_WINDOW_SIZE)
    ELSE w

\* The window after an ack whose RTT proxy falls in class age.
AckWindow(w, age) ==
    IF age = 0 THEN Min(w + WINDOW_INCREASE, MAX_WINDOW_SIZE)
    ELSE IF age = 2 THEN Max(w - WINDOW_DECREASE, MIN_WINDOW_SIZE)
    ELSE w

NoteWindow(h, w) == [h EXCEPT !.windowReduced = @ \/ w < windowSize]

\* History: the chunk indices of the file acknowledged in the current transfer.
NoteAck(h, chunkIndex) ==
    [h EXCEPT !.acked = @ \cup ({chunkIndex} \cap 0..(TotalChunks(file) - 1))]

handleChunkAck(message, n) ==
    /\ UNCHANGED <<file, codec, serverVars, transferNo, peerModelled, sendState, promise, timeoutChecker, isSending,
                   currentFileId, readyState, recvVars>>
    /\ IF currentFileId # message.fileId
       THEN /\ net' = n
            /\ UNCHANGED <<pumpTimer, sendQueue, pendingChunks, windowSize, ackAge,
                           bufferedAmount, hist>>
       ELSE LET p == PendingDelete(pendingChunks, message.chunkIndex)
                w == AckWindow(windowSize, ackAge)
            IN /\ ackAge' = 0
               /\ windowSize' = w
               /\ IF isSending
                  THEN RunPump(sendQueue, p, w, NoteAck(NoteWindow(hist, w), message.chunkIndex), n)
                  ELSE /\ pendingChunks' = p
                       /\ net' = n
                       /\ hist' = NoteAck(NoteWindow(hist, w), message.chunkIndex)
                       /\ UNCHANGED <<pumpTimer, sendQueue, bufferedAmount>>

\* --------------------------------------------------------- checkForTimeouts
\* (variant: a timed-out entry is given up at once, nothing is requeued)
ScanPendingGivesUp(rest, kept, timedOut) ==
    [pending |-> kept \o SelectSeq(rest, LAMBDA e : ~e.expired), timedOut |-> timedOut]

\* pendingChunksRef.forEach of the watchdog, entry by entry in Map order: a
\* timed-out entry with retries left is collected and restamped, an entry
\* whose retries are used up is deleted.
RECURSIVE ScanPending(_, _, _)
ScanPending(rest, kept, timedOut) ==
    IF rest = <<>> THEN [pending |-> kept, timedOut |-> timedOut]
    ELSE LET e == Head(rest)
         IN IF e.expired /\ e.retries < MAX_RETRIES
            THEN ScanPending(Tail(rest),
                             Append(kept, PendingEntry(e.chunkIndex, FALSE, e.retries + 1)),
                             Append(timedOut, e.chunkIndex))
            ELSE IF e.retries >= MAX_RETRIES
            THEN ScanPending(Tail(rest), kept, timedOut)
            ELSE ScanPending(Tail(rest), Append(kept, e), timedOut)

\* History: the indices the watchdog deleted for used-up retries.
NoteExhausted(h, before, after) ==
    [h EXCEPT !.exhausted = @ \cup (PendingKeys(before) \ PendingKeys(after))]

\* The window after a watchdog run that found a timed-out chunk.
TimeoutWindow(w) == Max(w - 1, MIN_WINDOW_SIZE)

checkForTimeouts ==
    /\ timeoutChecker
    /\ isSending
    /\ LET r == ScanPending(pendingChunks, <<>>, <<>>)
       IN IF Len(r.timedOut) > 0
          THEN LET w == TimeoutWindow(windowSize)
               IN /\ windowSize' = w
                  /\ RunPump(r.timedOut \o sendQueue, r.pending, w,
                             NoteExhausted(NoteWindow(hist, w), pendingChunks, r.pending), net)
                  /\ Len(sendQueue') <= MaxQueue
          ELSE /\ pendingChunks' = r.pending
               /\ pendingChunks' # pendingChunks
               /\ hist' = NoteExhausted(hist, pendingChunks, r.pending)
               /\ UNCHANGED <<pumpTimer, sendQueue, windowSize, bufferedAmount, net>>
    /\ UNCHANGED <<file, codec, serverVars, transferNo, peerModelled, sendState, promise, timeoutChecker, isSending,
                   currentFileId, ackAge, readyState, recvVars>>

\* ------------------------------------------------------------ checkComplete
\* (variant: FileComplete is sent without waiting for queue and pending set)
checkCompleteEarly ==
    /\ sendState = "polling"
    /\ UNCHANGED <<file, codec, serverVars, transferNo, peerModelled, pumpTimer, sendQueue, pendingChunks,
                   windowSize, ackAge, readyState, bufferedAmount, recvVars>>
    /\ IF ~isSending
       THEN /\ timeoutChecker' = FALSE
            /\ promise' = "resolved"
            /\ sendState' = "settled"
            /\ UNCHANGED <<isSending, currentFileId, net, hist>>
       ELSE IF readyState = "open"
       THEN /\ net' = ChannelSend(net, CompleteMessage(file, transferNo))
            /\ sendState' = "completing"
            /\ hist' = [hist EXCEPT !.completes = @ + 1]
            /\ UNCHANGED <<promise, timeoutChecker, isSending, currentFileId>>
       ELSE /\ timeoutChecker' = FALSE
            /\ promise' = "rejected"
            /\ sendState' = "settled"
            /\ isSending' = FALSE
            /\ currentFileId' = NoFileId
            /\ UNCHANGED <<net, hist>>

\* The poll of the promise sendFileInChunks returned.  A run that finds work
\* left only schedules itself again and changes nothing.
checkComplete ==
    /\ sendState = "polling"
    /\ UNCHANGED <<file, codec, serverVars, transferNo, peerModelled, pumpTimer, sendQueue, pendingChunks,
                   windowSize, ackAge, readyState, bufferedAmount, recvVars>>
    /\ IF ~isSending
       THEN /\ timeoutChecker' = FALSE
            /\ promise' = "resolved"
            /\ sendState' = "settled"
            /\ UNCHANGED <<isSending, currentFileId, net, hist>>
       ELSE /\ Len(sendQueue) = 0
            /\ Len(pendingChunks) = 0
            /\ IF readyState = "open"
               THEN /\ net' = ChannelSend(net, CompleteMessage(file, transferNo))
                    /\ sendState' = "completing"
                    /\ hist' = [hist EXCEPT !.completes = @ + 1]
                    /\ UNCHANGED <<promise, timeoutChecker, isSending, currentFileId>>
               ELSE \* send throws: clearInterval, reject; handleSubmit's catch
                    /\ timeoutChecker' = FALSE
                    /\ promise' = "rejected"
                    /\ sendState' = "settled"
                    /\ isSending' = FALSE
                    /\ currentFileId' = NoFileId
                    /\ UNCHANGED <<net, hist>>

\* (variant: the timer resets the refs and forgets to resolve)
completeTimerNoResolve ==
    /\ sendState = "completing"
    /\ isSending' = FALSE
    /\ currentFileId' = NoFileId
    /\ timeoutChecker' = FALSE
    /\ sendState' = "settled"
    /\ UNCHANGED <<file, codec, serverVars, transferNo, peerModelled, promise, pumpTimer, sendQueue,
                   pendingChunks, windowSize, ackAge, chanVars, recvVars, hist>>

\* The setTimeout of 200 ms that follows the send of FileComplete.
completeTimer ==
    /\ sendState = "completing"
    /\ isSending' = FALSE
    /\ currentFileId' = NoFileId
    /\ timeoutChecker' = FALSE
    /\ promise' = "resolved"
    /\ sendState' = "settled"
    /\ UNCHANGED <<file, codec, serverVars, transferNo, peerModelled, pumpTimer, sendQueue, pendingChunks, windowSize,
                   ackAge, chanVars, recvVars, hist>>

\* --------------------------------------------------------------------- time
\* Some time passes: the RTT proxy of the next ack moves up one class.
Tick ==
    /\ sendState \in {"polling", "completing"}
    /\ ackAge < 2
    /\ ackAge' = ackAge + 1
    /\ UNCHANGED <<file, codec, serverVars, transferNo, peerModelled, sendState, promise, timeoutChecker, pumpTimer,
                   isSending, currentFileId, sendQueue, pendingChunks, windowSize,
                   chanVars, recvVars, hist>>

\* More than CHUNK_TIMEOUT passes, any number of times.  CHUNK_TIMEOUT (5 s)
\* is longer than the channel holds a message and than the pump waits for its
\* next run: by then the channel has delivered or lost what was in flight and
\* no pump run is outstanding.
Timeout ==
    /\ net = EmptyBag
    /\ ~pumpTimer
    /\ \E i \in DOMAIN pendingChunks : ~pendingChunks[i].expired
    /\ pendingChunks' = [i \in DOMAIN pendingChunks |-> [pendingChunks[i] EXCEPT !.expired = TRUE]]
    /\ ackAge' = 2
    /\ UNCHANGED <<file, codec, serverVars, transferNo, peerModelled, sendState, promise, timeoutChecker, pumpTimer,
                   isSending, currentFileId, sendQueue, windowSize, chanVars, recvVars, hist>>

\* More than CHUNK_TIMEOUT passes: every pending chunk is older than the timeout.
Elapse ==
    /\ peerModelled => hist.elapses < MaxElapse
    /\ \E i \in DOMAIN pendingChunks : ~pendingChunks[i].expired
    /\ pendingChunks' = [i \in DOMAIN pendingChunks |-> [pendingChunks[i] EXCEPT !.expired = TRUE]]
    /\ ackAge' = 2
    /\ hist' = [hist EXCEPT !.elapses = IF peerModelled THEN @ + 1 ELSE @]
    /\ UNCHANGED <<file, codec, serverVars, transferNo, peerModelled, sendState, promise, timeoutChecker, pumpTimer,
                   isSending, currentFileId, sendQueue, windowSize, chanVars, recvVars>>

\* ------------------------------------------------------------- the receiver
\* Map.set / Map.delete on a Map kept as a function.
\* (variant: the Map is replaced by one holding only the new entry)
MapSetOnly(m, k, v) == [x \in {k} |-> v]
MapSet(m, k, v) == [x \in DOMAIN m \cup {k} |-> IF x = k THEN v ELSE m[x]]
MapDelete(m, k) == [x \in DOMAIN m \ {k} |-> m[x]]

\* (variant: the two numbers of the metadata swapped)
NewBufferSwapped(fileName, fileSize, totalChunks) ==
    [fileName |-> fileName, fileSize |-> totalChunks, totalChunks |-> fileSize,
     receivedChunks |-> EmptyMap, receivedCount |-> 0]

\* (variant: a new buffer counts one chunk before any has arrived)
NewBufferCounted(fileName, fileSize, totalChunks) ==
    [fileName |-> fileName, fileSize |-> fileSize, totalChunks |-> totalChunks,
     receivedChunks |-> EmptyMap, receivedCount |-> 1]

NewBuffer(fileName, fileSize, totalChunks) ==
    [fileName |-> fileName, fileSize |-> fileSize, totalChunks |-> totalChunks,
     receivedChunks |-> EmptyMap, receivedCount |-> 0]

\* handleFileStart: a message without a name is ignored; otherwise the buffer
\* of fileId is set to a new, empty one.
handleFileStart(message, n) ==
    /\ net' = n
    /\ IF message.fileName = <<>>
       THEN UNCHANGED <<fileReceiveBuffers, hist>>
       ELSE /\ fileReceiveBuffers' =
                  MapSet(fileReceiveBuffers, message.fileId,
                         NewBuffer(message.fileName, message.fileSize, message.totalChunks))
            /\ hist' = [hist EXCEPT !.startHandled = TRUE,
                                    !.startAfterChunk = @ \/ hist.delivered # {}]
    /\ UNCHANGED <<file, codec, serverVars, transferNo, peerModelled, senderVars, readyState, bufferedAmount, savedFiles>>

\* completeFile.set(chunk, offset) for i = from .. totalChunks - 1.  The result
\* is the assembled bytes, or "missing" when an index has no chunk, or
\* "throws" when a chunk does not fit in the fileSize bytes (RangeError).
RECURSIVE AssembleLoop(_, _, _, _)
AssembleLoop(buffer, i, offset, completeFile) ==
    IF i >= buffer.totalChunks THEN [kind |-> "saved", bytes |-> completeFile]
    ELSE IF i \notin DOMAIN buffer.receivedChunks THEN [kind |-> "missing", bytes |-> <<>>]
    ELSE LET chunk == buffer.receivedChunks[i]
         IN IF offset + Len(chunk) > buffer.fileSize
            THEN [kind |-> "throws", bytes |-> <<>>]
            ELSE AssembleLoop(buffer, i + 1, offset + Len(chunk),
                              [j \in 1..buffer.fileSize |->
                                   IF j > offset /\ j <= offset + Len(chunk)
                                   THEN chunk[j - offset] ELSE completeFile[j]])

\* (variant: the chunks concatenated from the highest index down)
assembleDescending(buffer) ==
    AssembleLoop([buffer EXCEPT !.receivedChunks =
                     [i \in DOMAIN @ |-> IF buffer.totalChunks - 1 - i \in DOMAIN @
                                         THEN @[buffer.totalChunks - 1 - i] ELSE @[i]]],
                 0, 0, [j \in 1..buffer.fileSize |-> 0])

\* assembleAndSaveFile of a buffer: new Uint8Array(fileSize) is all zero.
assembleAndSaveFile(buffer) ==
    AssembleLoop(buffer, 0, 0, [j \in 1..buffer.fileSize |-> 0])

\* handleFileChunk.  A chunk without a name or without payload is ignored.  The
\* buffer is the one of fileId or a new one made from the chunk's own
\* metadata.  A new index is stored, counted and acknowledged, and when the
\* count reaches the chunk's totalChunks the file is assembled; a saved file
\* removes the buffer.
handleFileChunk(message, n) ==
    /\ UNCHANGED <<file, codec, serverVars, transferNo, peerModelled, senderVars, readyState, bufferedAmount>>
    /\ IF message.fileName = <<>> \/ ~Has(message, "payload")
       THEN /\ net' = n
            /\ UNCHANGED <<fileReceiveBuffers, savedFiles, hist>>
       ELSE LET fileId == message.fileId
                buffer == IF fileId \in DOMAIN fileReceiveBuffers
                          THEN fileReceiveBuffers[fileId]
                          ELSE NewBuffer(message.fileName, message.fileSize, message.totalChunks)
                isNew == message.chunkIndex \notin DOMAIN buffer.receivedChunks
                stored == [buffer EXCEPT
                              !.receivedChunks = MapSet(@, message.chunkIndex, message.payload),
                              !.receivedCount = @ + 1]
                h == [hist EXCEPT !.delivered = @ \cup {message.chunkIndex},
                                  !.reverse = IF isNew
                                              THEN @ /\ message.chunkIndex =
                                                        message.totalChunks - 1 - buffer.receivedCount
                                              ELSE @]
            IN /\ hist' = h
               /\ IF ~isNew
                  THEN /\ net' = n
                       /\ fileReceiveBuffers' = MapSet(fileReceiveBuffers, fileId, buffer)
                       /\ UNCHANGED savedFiles
                  ELSE /\ net' = (IF readyState = "open"
                                  THEN ChannelSend(n, AckMessage(fileId, message.chunkIndex))
                                  ELSE n)
                       /\ IF stored.receivedCount = message.totalChunks
                          THEN LET r == assembleAndSaveFile(stored)
                               IN IF r.kind = "saved"
                                  THEN /\ savedFiles' = Append(savedFiles,
                                                 [fileName |-> stored.fileName, bytes |-> r.bytes])
                                       /\ fileReceiveBuffers' = MapDelete(fileReceiveBuffers, fileId)
                                  ELSE /\ fileReceiveBuffers' = MapSet(fileReceiveBuffers, fileId, stored)
                                       /\ UNCHANGED savedFiles
                          ELSE /\ fileReceiveBuffers' = MapSet(fileReceiveBuffers, fileId, stored)
                               /\ UNCHANGED savedFiles

\* handleFileComplete resets the sender refs of the endpoint it runs on when the
\* fileId is that endpoint's own outbound transfer.  FileComplete reaches the
\* receiving endpoint, which has no outbound transfer (its currentFileIdRef is
\* null), so the condition is false there.
handleFileComplete(fileId, n) ==
    /\ net' = n
    /\ NoFileId # fileId
    /\ UNCHANGED <<file, codec, serverVars, transferNo, peerModelled, senderVars, readyState, bufferedAmount, recvVars, hist>>

\* (variant: the catch block discards the receive buffers)
handleIncomingMessageResets(w, n) ==
    LET message == decodeBinaryMessage(w)
    IN IF message = DecodeThrows
       THEN /\ net' = n
            /\ fileReceiveBuffers' = EmptyMap
            /\ UNCHANGED <<file, codec, serverVars, transferNo, peerModelled, senderVars, readyState, bufferedAmount,
                           savedFiles, hist>>
       ELSE IF message.type = MESSAGE_TYPES.FILE_START THEN handleFileStart(message, n)
       ELSE IF message.type = MESSAGE_TYPES.FILE_CHUNK THEN handleFileChunk(message, n)
       ELSE IF message.type = MESSAGE_TYPES.CHUNK_ACK THEN handleChunkAck(message, n)
       ELSE IF message.type = MESSAGE_TYPES.FILE_COMPLETE
       THEN handleFileComplete(message.fileId, n)
       ELSE /\ net' = n
            /\ UNCHANGED <<file, codec, serverVars, transferNo, peerModelled, senderVars, readyState, bufferedAmount,
                           recvVars, hist>>

\* handleIncomingMessage: decode and dispatch; whatever decode or a handler
\* throws is caught and logged.
handleIncomingMessage(w, n) ==
    LET message == decodeBinaryMessage(w)
    IN IF message = DecodeThrows
       THEN /\ net' = n
            /\ UNCHANGED <<file, codec, serverVars, transferNo, peerModelled, senderVars, readyState, bufferedAmount,
                           recvVars, hist>>
       ELSE IF message.type = MESSAGE_TYPES.FILE_START THEN handleFileStart(message, n)
       ELSE IF message.type = MESSAGE_TYPES.FILE_CHUNK THEN handleFileChunk(message, n)
       ELSE IF message.type = MESSAGE_TYPES.CHUNK_ACK THEN handleChunkAck(message, n)
       ELSE IF message.type = MESSAGE_TYPES.FILE_COMPLETE
       THEN handleFileComplete(message.fileId, n)
       ELSE /\ net' = n
            /\ UNCHANGED <<file, codec, serverVars, transferNo, peerModelled, senderVars, readyState, bufferedAmount,
                           recvVars, hist>>

\* ---------------------------------------------------------------- channel
InFlight(type) == {w \in BagToSet(net) : w.type = type}
Without(w) == net (-) SetToBag({w})

\* dataChannel.onmessage, by the kind of message that arrives.
DeliverFileStart ==
    /\ readyState = "open"
    /\ \E w \in InFlight(MESSAGE_TYPES.FILE_START) : handleIncomingMessage(w, Without(w))

DeliverFileChunk ==
    /\ readyState = "open"
    /\ \E w \in InFlight(MESSAGE_TYPES.FILE_CHUNK) : handleIncomingMessage(w, Without(w))

DeliverChunkAck ==
    /\ readyState = "open"
    /\ \E w \in InFlight(MESSAGE_TYPES.CHUNK_ACK) : handleIncomingMessage(w, Without(w))

DeliverFileComplete ==
    /\ readyState = "open"
    /\ \E w \in InFlight(MESSAGE_TYPES.FILE_COMPLETE) : handleIncomingMessage(w, Without(w))

\* The channel loses a message (maxRetransmits: 3 gives up).
Drop ==
    /\ readyState = "open"
    /\ hist.drops < MaxDrops
    /\ \E w \in BagToSet(net) :
          /\ net' = Without(w)
          /\ hist' = [hist EXCEPT !.drops = @ + 1,
                                  !.chunkDrops = @ + (IF w.type = MESSAGE_TYPES.FILE_CHUNK
                                                      THEN 1 ELSE 0)]
    /\ UNCHANGED <<file, codec, serverVars, transferNo, peerModelled, senderVars, readyState, bufferedAmount, recvVars>>

\* The channel loses a ChunkAck.
DropAck ==
    /\ readyState = "open"
    /\ hist.drops < MaxDrops
    /\ \E w \in InFlight(MESSAGE_TYPES.CHUNK_ACK) : net' = Without(w)
    /\ hist' = [hist EXCEPT !.drops = @ + 1]
    /\ UNCHANGED <<file, codec, serverVars, transferNo, peerModelled, senderVars, readyState, bufferedAmount, recvVars>>

\* dataChannel.onmessage with the FileChunk of index chunkIndex.
DeliverChunk(chunkIndex) ==
    /\ readyState = "open"
    /\ \E w \in InFlight(MESSAGE_TYPES.FILE_CHUNK) :
          /\ w.chunkIndex = chunkIndex
          /\ handleIncomingMessage(w, Without(w))

\* The channel hands its buffered bytes to the network.
Drain ==
    /\ bufferedAmount > 0
    /\ bufferedAmount' = 0
    /\ UNCHANGED <<file, codec, serverVars, transferNo, peerModelled, senderVars, readyState, net, recvVars, hist>>

\* The channel hands a part of its buffered bytes to the network.
DrainSome ==
    /\ bufferedAmount > 0
    /\ \E b \in 1..(bufferedAmount - 1) : bufferedAmount' = b
    /\ UNCHANGED <<file, codec, serverVars, transferNo, peerModelled, senderVars, readyState, net, recvVars, hist>>

\* dataChannel.onclose / onerror: the channel is closed, what was in flight is
\* gone, and the handler sets the status text only.
ChannelClose ==
    /\ readyState = "open"
    /\ readyState' = "closed"
    /\ net' = EmptyBag
    /\ hist' = [hist EXCEPT !.closedWhileSending = (promise = "pending")]
    /\ UNCHANGED <<file, codec, serverVars, transferNo, peerModelled, senderVars, bufferedAmount, recvVars>>

\* ------------------------------------------------- the peer as environment
\* A ChunkAck arrives from a peer that is not modelled: any index, for the
\* fileId of any transfer started so far or of the next one.
EnvChunkAck ==
    /\ ~peerModelled
    /\ readyState = "open"
    /\ \E fileId \in 1..MaxTransfers, chunkIndex \in 0..MaxAckIndex :
          handleIncomingMessage(encodeBinaryMessage(AckMessage(fileId, chunkIndex)), net)

\* The transfer has settled and the user submits the file again.
Resubmit ==
    /\ sendState = "settled"
    /\ transferNo < MaxTransfers
    /\ sendState' = "idle"
    /\ promise' = "none"
    /\ UNCHANGED <<file, codec, serverVars, transferNo, peerModelled, timeoutChecker, pumpTimer, isSending,
                   currentFileId, sendQueue, pendingChunks, windowSize, ackAge,
                   chanVars, recvVars, hist>>

\* ------------------------------------------------------------ specification
Next ==
    \/ sendFileInChunks
    \/ PrepareDone
    \/ PumpTimerFires
    \/ checkForTimeouts
    \/ checkComplete
    \/ completeTimer
    \/ Tick
    \/ Elapse
    \/ DeliverFileStart
    \/ DeliverFileChunk
    \/ DeliverChunkAck
    \/ DeliverFileComplete
    \/ Drop
    \/ Drain
    \/ ChannelClose

Spec == Init /\ [][Next]_vars

\* The sender against an arbitrary peer: acknowledgments arrive in any number
\* and with any RTT, timeouts happen at any time, transfers follow one another.
WindowFiles == {FileOfSize(n) : n \in 0..1}

InitWindow == \E f \in WindowFiles : InitWith(f, FALSE)

NextWindow ==
    \/ sendFileInChunks
    \/ PrepareDone
    \/ PumpTimerFires
    \/ checkForTimeouts
    \/ checkComplete
    \/ completeTimer
    \/ Tick
    \/ Elapse
    \/ EnvChunkAck
    \/ Drain
    \/ Resubmit

SpecWindow == InitWindow /\ [][NextWindow]_vars

\* Spec with the scheduling the browser guarantees: a timer that is due fires,
\* the FileReader finishes, an open channel hands over what it has not lost.
\* Loss, closing and the passing of time are left to the environment.
FairSpec ==
    /\ Spec
    /\ WF_vars(PrepareDone)
    /\ WF_vars(PumpTimerFires)
    /\ WF_vars(checkForTimeouts)
    /\ WF_vars(checkComplete)
    /\ WF_vars(completeTimer)
    /\ WF_vars(DeliverFileStart)
    /\ WF_vars(DeliverFileChunk)
    /\ WF_vars(DeliverChunkAck)
    /\ WF_vars(DeliverFileComplete)
    /\ WF_vars(Drain)

\* ------------------------------------------------------- slicing the file
\* The sender alone, with files of up to three chunks and the peer's acks
\* drawn by the environment.
SliceFiles == {FileOfSize(n) : n \in 0..MaxSliceSize}

InitSlice == \E f \in SliceFiles : InitWith(f, FALSE)

\* The file is cut and pumped; no timer of the watchdog or of completion runs.
NextSlice ==
    \/ sendFileInChunks
    \/ PrepareDone
    \/ PumpTimerFires
    \/ EnvChunkAck
    \/ Drain

SpecSlice == InitSlice /\ [][NextSlice]_vars

\* The sender alone, with files of up to four chunks, over a channel that
\* drains by any amount.
PumpFiles == {FileOfSize(n) : n \in 1..MaxPumpSize}

InitPump == \E f \in PumpFiles : InitWith(f, FALSE)

NextPump ==
    \/ sendFileInChunks
    \/ PrepareDone
    \/ PumpTimerFires
    \/ EnvChunkAck
    \/ DrainSome

SpecPump == InitPump /\ [][NextPump]_vars

\* The sender alone with a file that has more chunks than MIN_WINDOW_SIZE
\* beside those the environment acknowledges, the peer's acks drawn by the
\* environment with any RTT.
CapFiles == {FileOfSize((MIN_WINDOW_SIZE + MaxAckIndex + 2) * CHUNK_SIZE)}

InitCap == \E f \in CapFiles : InitWith(f, FALSE)

NextCap ==
    \/ sendFileInChunks
    \/ PrepareDone
    \/ PumpTimerFires
    \/ EnvChunkAck
    \/ Tick
    \/ Drain

SpecCap == InitCap /\ [][NextCap]_vars

\* A channel that stays open and loses at most MaxDrops ChunkAcks, between two
\* endpoints whose timers fire and whose channel delivers what it has not
\* lost; CHUNK_TIMEOUT passes again and again.
AckLossFiles == {FileOfSize(n) : n \in 1..MaxFileSize}

InitAckLoss == \E f \in AckLossFiles : InitWith(f, TRUE)

NextAckLoss ==
    \/ sendFileInChunks
    \/ PrepareDone
    \/ PumpTimerFires
    \/ checkForTimeouts
    \/ checkComplete
    \/ completeTimer
    \/ Timeout
    \/ DeliverFileStart
    \/ DeliverFileChunk
    \/ DeliverChunkAck
    \/ DeliverFileComplete
    \/ DropAck
    \/ Drain

AckLossSpec ==
    /\ InitAckLoss
    /\ [][NextAckLoss]_vars
    /\ WF_vars(sendFileInChunks)
    /\ WF_vars(PrepareDone)
    /\ WF_vars(PumpTimerFires)
    /\ WF_vars(checkForTimeouts)
    /\ WF_vars(checkComplete)
    /\ WF_vars(completeTimer)
    /\ WF_vars(Timeout)
    /\ WF_vars(DeliverFileStart)
    /\ WF_vars(DeliverFileComplete)
    /\ \A i \in 0..(Ceil(MaxFileSize, CHUNK_SIZE) - 1) : WF_vars(DeliverChunk(i))
    /\ WF_vars(DeliverChunkAck)
    /\ WF_vars(Drain)

\* ------------------------------------------------- inbound transfers only
\* This endpoint only receives.  The remote peer is the environment: it sends
\* FileStart and FileChunk messages of the file under any of the fileIds, in
\* any order and any number of times, and it need not keep chunkIndex below
\* totalChunks.  A chunk beyond the end of the file carries one byte.
InboundFiles == {FileOfSize(n) : n \in 1..MaxFileSize}

InboundChunk(f, fileId, chunkIndex) ==
    [ChunkMessage(f, fileId, chunkIndex) EXCEPT
        !.payload = IF chunkIndex < TotalChunks(f) THEN @ ELSE <<chunkIndex>>]

InitInbound == \E f \in InboundFiles : InitWith(f, FALSE)

InboundStartArrives(fileId) ==
    /\ readyState = "open"
    /\ handleIncomingMessage(encodeBinaryMessage(StartMessage(file, fileId)), net)

InboundChunkArrives(fileId, chunkIndex) ==
    /\ readyState = "open"
    /\ handleIncomingMessage(encodeBinaryMessage(InboundChunk(file, fileId, chunkIndex)), net)

EnvFileStart ==
    /\ Len(savedFiles) < MaxTransfers
    /\ \E fileId \in 1..MaxTransfers : InboundStartArrives(fileId)

EnvFileChunk ==
    /\ Len(savedFiles) < MaxTransfers
    /\ \E fileId \in 1..MaxTransfers, chunkIndex \in 0..TotalChunks(file) :
          InboundChunkArrives(fileId, chunkIndex)

NextInbound ==
    \/ EnvFileStart
    \/ EnvFileChunk

SpecInbound == InitInbound /\ [][NextInbound]_vars

\* ------------------------------------------------- the signalling server
\* initializeSocketEvents of the signalling server.  A socket is known by its
\* position in sockets; deviceId and address come with the handshake (the
\* address from the x-forwarded-for header or the connection).  learned
\* collects, per socket, the socket ids the server named to it in peerList,
\* peerJoined and peersUpdated.
DeviceIds == {"A", "B", "C"}
IPs == {<<10, 0, 0, 1>>, <<10, 0, 0, 2>>, <<10, 0, 1, 1>>}
RelayKinds == {"offer", "answer", "ice-candidate"}

\* ip.split(".").slice(0, 3).join(".")
Subnet(ip) == SubSeq(ip, 1, Min(3, Len(ip)))

findMatchingPeers(ps, deviceId, publicIp) ==
    {ps[d].socketId : d \in {x \in DOMAIN ps :
                                x # deviceId /\ Subnet(ps[x].publicIp) = Subnet(publicIp)}}

ConnectedIn(socks) == {i \in DOMAIN socks : socks[i].connected}

\* io.to(socketId).emit(...) for every socketId of ids: the connected sockets
\* among them are told of the socket ids told.
EmitTo(socks, l, ids, told) ==
    [i \in DOMAIN l |-> IF i \in ids \cap ConnectedIn(socks) THEN l[i] \cup told ELSE l[i]]

\* io.emit("peersUpdated", peers): every connected socket gets the registry.
EmitPeersUpdated(socks, l, ps) ==
    EmitTo(socks, l, ConnectedIn(socks), {ps[d].socketId : d \in DOMAIN ps})

\* The devices of the modelled client and of the peer it transfers with.
LocalDevice == "A"
RemoteDevice == "B"

\* io.emit("peersUpdated", peers) caused by deviceId d, as the local client
\* gets it: its socket must be connected.
Broadcast(u, socks, d) ==
    IF \E s \in ConnectedIn(socks) : socks[s].deviceId = LocalDevice THEN u \cup {d} ELSE u

\* (variant: the relayed message goes to every connected socket)
RelayToAll(socks, socketId) == ConnectedIn(socks)

\* io.to(targetPeer.socketId).emit(kind, ...): who receives it.
RelayRecipients(socks, socketId) == {i \in ConnectedIn(socks) : i = socketId}

\* The "disconnect" handler of socket s: its deviceId leaves the registry,
\* the registry is broadcast, the matching peers get peerLeft, and the
\* registry is broadcast again.
OnDisconnect(ps, socks, l, s) ==
    LET ps1 == MapDelete(ps, socks[s].deviceId)
        socks1 == [socks EXCEPT ![s].connected = FALSE]
    IN [peers |-> ps1, sockets |-> socks1, learned |-> EmitPeersUpdated(socks1, l, ps1)]

\* (variant: the socket registered for the deviceId is left connected)
ConnectNoTakeover ==
    /\ Len(sockets) < MaxSockets
    /\ \E d \in DeviceIds \cup {""}, ip \in IPs :
          LET new == Len(sockets) + 1
              socks0 == Append(sockets, [deviceId |-> d, ip |-> ip, connected |-> d # ""])
              l0 == Append(learned, {})
              ps2 == MapSet(peers, d, [socketId |-> new, publicIp |-> ip])
              matching == findMatchingPeers(ps2, d, ip)
              l1 == EmitTo(socks0, l0, {new}, matching)
              l2 == EmitTo(socks0, l1, matching, {new})
          IN IF d = ""
             THEN /\ sockets' = socks0
                  /\ learned' = l0
                  /\ UNCHANGED <<peers, updates>>
             ELSE /\ peers' = ps2
                  /\ sockets' = socks0
                  /\ learned' = EmitPeersUpdated(socks0, l2, ps2)
                  /\ updates' = Broadcast(updates, socks0, d)
    /\ UNCHANGED <<relayed, clientVars>>

\* io.on("connection"): a socket without deviceId is disconnected at once.
\* Otherwise the socket registered for the deviceId, if any, is disconnected
\* (its disconnect handler runs inside the call), the new socket is
\* registered, gets peerList, the matching peers get peerJoined, and the
\* registry is broadcast.
Connect ==
    /\ Len(sockets) < MaxSockets
    /\ \E d \in DeviceIds \cup {""}, ip \in IPs :
          LET new == Len(sockets) + 1
              socks0 == Append(sockets, [deviceId |-> d, ip |-> ip, connected |-> d # ""])
              l0 == Append(learned, {})
              old == IF d \in DOMAIN peers THEN peers[d].socketId ELSE 0
              r == IF old \in ConnectedIn(sockets) /\ old # new
                   THEN OnDisconnect(peers, socks0, l0, old)
                   ELSE [peers |-> peers, sockets |-> socks0, learned |-> l0]
              ps2 == MapSet(r.peers, d, [socketId |-> new, publicIp |-> ip])
              matching == findMatchingPeers(ps2, d, ip)
              l1 == EmitTo(r.sockets, r.learned, {new}, matching)
              l2 == EmitTo(r.sockets, l1, matching, {new})
          IN IF d = ""
             THEN /\ sockets' = socks0
                  /\ learned' = l0
                  /\ UNCHANGED <<peers, updates>>
             ELSE /\ peers' = ps2
                  /\ sockets' = r.sockets
                  /\ learned' = EmitPeersUpdated(r.sockets, l2, ps2)
                  /\ updates' = Broadcast(updates, r.sockets, d)
    /\ UNCHANGED <<relayed, clientVars>>

\* socket.on("disconnect") after the client went away.
Disconnect ==
    /\ \E s \in ConnectedIn(sockets) :
          LET r == OnDisconnect(peers, sockets, learned, s)
          IN /\ peers' = r.peers
             /\ sockets' = r.sockets
             /\ learned' = r.learned
             /\ updates' = Broadcast(updates, r.sockets, sockets[s].deviceId)
    /\ UNCHANGED <<relayed, clientVars>>

\* socket.on("requestPeerList")
requestPeerList ==
    /\ \E s \in ConnectedIn(sockets) :
          learned' = EmitTo(sockets, learned, {s},
                            findMatchingPeers(peers, sockets[s].deviceId, sockets[s].ip))
    /\ UNCHANGED <<peers, sockets, relayed, updates, clientVars>>

\* socket.on("offer" | "answer" | "ice-candidate") of socket s with toDeviceId.
Relay ==
    /\ \E s \in ConnectedIn(sockets), kind \in RelayKinds, toDeviceId \in DeviceIds :
          relayed' = [kind |-> kind, sender |-> s, fromDeviceId |-> sockets[s].deviceId,
                      toDeviceId |-> toDeviceId,
                      recipients |-> IF toDeviceId \in DOMAIN peers
                                     THEN RelayRecipients(sockets, peers[toDeviceId].socketId)
                                     ELSE {}]
    /\ UNCHANGED <<peers, sockets, learned, updates, clientVars>>

InitServerOnly ==
    /\ InitProtocol(FileOfSize(0), FALSE)
    /\ codec = NoCodec
    /\ InitServer

NextServer ==
    \/ Connect
    \/ Disconnect
    \/ requestPeerList
    \/ Relay

SpecServer == InitServerOnly /\ [][NextServer]_vars

\* ---------------------------------------- registry broadcasts at the client
\* socket.on("peersUpdated") of useSocket stores the registry it got with
\* setPeers, a new object every time.  peers is a dependency of the WebRTC
\* effect of FileTransferForm, so the effect's cleanup runs, closing the data
\* channel and the peer connection, and the effect builds a new connection
\* whose channel is not open yet.
peersUpdated ==
    /\ \E d \in updates : updates' = updates \ {d}
    /\ readyState' = "connecting"
    /\ net' = EmptyBag
    /\ hist' = IF readyState = "open"
               THEN [hist EXCEPT !.closedWhileSending = (promise = "pending")]
               ELSE hist
    /\ UNCHANGED <<file, codec, peers, sockets, learned, relayed, transferNo, peerModelled,
                   senderVars, bufferedAmount, recvVars>>

\* The local and the remote device have connected to the server from one
\* subnet, the answer has been relayed and the data channel is open.
BroadcastFiles == {FileOfSize(n) : n \in 1..CHUNK_SIZE}

InitBroadcast ==
    /\ \E f \in BroadcastFiles : InitProtocol(f, FALSE)
    /\ codec = NoCodec
    /\ peers = [d \in {LocalDevice, RemoteDevice} |->
                  [socketId |-> IF d = LocalDevice THEN 1 ELSE 2, publicIp |-> <<10, 0, 0, 1>>]]
    /\ sockets = <<[deviceId |-> LocalDevice, ip |-> <<10, 0, 0, 1>>, connected |-> TRUE],
                   [deviceId |-> RemoteDevice, ip |-> <<10, 0, 0, 1>>, connected |-> TRUE]>>
    /\ learned = <<{1, 2}, {1, 2}>>
    /\ relayed = [kind |-> "answer", sender |-> 2, fromDeviceId |-> RemoteDevice,
                  toDeviceId |-> LocalDevice, recipients |-> {1}]
    /\ updates = {}

NextBroadcast ==
    \/ sendFileInChunks
    \/ PrepareDone
    \/ EnvChunkAck
    \/ checkComplete
    \/ completeTimer
    \/ Connect
    \/ Disconnect
    \/ peersUpdated

SpecBroadcast == InitBroadcast /\ [][NextBroadcast]_vars

\* ------------------------------------------------------------ the codec
\* A message is taken through encodeBinaryMessage, the buffer may be damaged
\* once on the way, and decodeBinaryMessage reads it.
NameOfLength(n) == [i \in 1..n |-> 65]
CodecHash == [i \in 1..HASH_LENGTH |-> 97]
CodecFiles ==
    {[name |-> NameOfLength(l), bytes |-> FileOfSize(n).bytes] :
        n \in 0..MaxFileSize, l \in {1, MAX_FILENAME_LENGTH, MAX_FILENAME_LENGTH + MaxNameExcess}}

\* The messages the endpoints build, with the first and the last chunk index,
\* and FILE_COMPLETE with and without a hash.
CodecMessages ==
    UNION {{StartMessage(f, id)}
           \cup {ChunkMessage(f, id, i) : i \in {0, TotalChunks(f) - 1} \cap 0..(TotalChunks(f) - 1)}
           \cup {AckMessage(id, i) : i \in {0, TotalChunks(f) - 1} \cap 0..(TotalChunks(f) - 1)}
           \cup {CompleteMessage(f, id), CompleteMessage(f, id) @@ [fileHash |-> CodecHash]} :
           f \in CodecFiles, id \in 1..MaxTransfers}

UnknownType == 9

\* A buffer damaged on the way: cut short, its type tag overwritten, or its
\* declared name length pointing past the end of the buffer.
Mangled(w) ==
    {[w EXCEPT !.byteLength = n] :
        n \in {0, FILE_ID_OFFSET + FILE_ID_LENGTH - 1, CHUNK_INDEX_OFFSET + 4,
               NAME_OFFSET + 1, HEADER_SIZE - 1, HEADER_SIZE} \cap 0..(w.byteLength - 1)}
    \cup {[w EXCEPT !.type = UnknownType]}
    \cup {[w EXCEPT !.fileNameLength = w.byteLength - NAME_OFFSET + 1]}

InitCodec ==
    /\ InitProtocol(FileOfSize(0), FALSE)
    /\ InitServer
    /\ \E m \in CodecMessages : codec = [pc |-> "encode", message |-> m]

CodecEncode ==
    /\ codec.pc = "encode"
    /\ LET w == encodeBinaryMessage(codec.message)
       IN codec' = IF w = EncodeThrows
                   THEN [pc |-> "done", message |-> codec.message, wire |-> w,
                         mangled |-> FALSE, decoded |-> EncodeThrows]
                   ELSE [pc |-> "wire", message |-> codec.message, wire |-> w,
                         mangled |-> FALSE]
    /\ UNCHANGED <<file, transferNo, peerModelled, senderVars, chanVars, recvVars, serverVars, hist>>

CodecMangle ==
    /\ codec.pc = "wire"
    /\ ~codec.mangled
    /\ \E w \in Mangled(codec.wire) :
          codec' = [codec EXCEPT !.wire = w, !.mangled = TRUE]
    /\ UNCHANGED <<file, transferNo, peerModelled, senderVars, chanVars, recvVars, serverVars, hist>>

CodecDecode ==
    /\ codec.pc = "wire"
    /\ codec' = [pc |-> "done", message |-> codec.message, wire |-> codec.wire,
                 mangled |-> codec.mangled, decoded |-> decodeBinaryMessage(codec.wire)]
    /\ UNCHANGED <<file, transferNo, peerModelled, senderVars, chanVars, recvVars, serverVars, hist>>

NextCodec ==
    \/ CodecEncode
    \/ CodecMangle
    \/ CodecDecode

SpecCodec == InitCodec /\ [][NextCodec]_vars

\* ------------------------------------------------ damaged messages in flight
\* A message in flight is damaged on its way.
Corrupt ==
    /\ readyState = "open"
    /\ hist.corrupts < MaxCorrupt
    /\ \E w \in BagToSet(net) : \E m \in Mangled(w) :
          net' = Without(w) (+) SetToBag({m})
    /\ hist' = [hist EXCEPT !.corrupts = @ + 1]
    /\ UNCHANGED <<file, codec, serverVars, transferNo, peerModelled, senderVars, readyState, bufferedAmount, recvVars>>

\* dataChannel.onmessage with a buffer whose type tag is none of MESSAGE_TYPES.
DeliverUnknown ==
    /\ readyState = "open"
    /\ \E w \in InFlight(UnknownType) : handleIncomingMessage(w, Without(w))

\* Files of one chunk.
MalformedFiles == {FileOfSize(n) : n \in 1..CHUNK_SIZE}

InitMalformed == \E f \in MalformedFiles : InitWith(f, TRUE)

NextMalformed ==
    \/ Next
    \/ Corrupt
    \/ DeliverUnknown

SpecMalformed == InitMalformed /\ [][NextMalformed]_vars

\* Spec with only the two timers of the completion path being fair.
PollFairSpec ==
    /\ Spec
    /\ WF_vars(checkComplete)
    /\ WF_vars(completeTimer)

\* ================================================================ properties
SourceFile == [fileName |-> file.name, bytes |-> file.bytes]
AllChunks == 0..(TotalChunks(file) - 1)
Settled == promise \in {"resolved", "rejected"}

\* C1: over a channel that drops one FileChunk exactly once and delivers every
\* other message, when the run is over (the promise resolved, nothing left in
\* flight) the sender has retransmitted a chunk, the window was reduced, and
\* the receiver has assembled a file byte-equal to the source.
C1_DropOnceRecovers ==
    (/\ hist.drops = 1
     /\ hist.chunkDrops = 1
     /\ readyState = "open"
     /\ promise = "resolved"
     /\ net = EmptyBag)
    => (/\ hist.resent # {}
        /\ hist.windowReduced
        /\ \E i \in DOMAIN savedFiles : savedFiles[i] = SourceFile)

\* C2: a FileStart for a fileId that already has a ReceiveBuffer leaves the
\* ReceiveBuffers as they are.
C2_DuplicateStartIgnored ==
    [][\A w \in InFlight(MESSAGE_TYPES.FILE_START) :
          (/\ readyState = "open"
           /\ w.fileId \in DOMAIN fileReceiveBuffers
           /\ handleIncomingMessage(w, Without(w)))
          => fileReceiveBuffers' = fileReceiveBuffers]_vars

\* C3: a FileChunk whose fileId and chunkIndex were delivered before changes
\* neither the ReceiveBuffers (receivedCount, stored chunks) nor what was
\* assembled.
C3_DuplicateChunkIgnored ==
    [][\A w \in InFlight(MESSAGE_TYPES.FILE_CHUNK) :
          (/\ readyState = "open"
           /\ w.chunkIndex \in hist.delivered
           /\ handleIncomingMessage(w, Without(w)))
          => UNCHANGED <<fileReceiveBuffers, savedFiles>>]_vars

\* C4: whatever the order in which the chunks of the file reach the receiver,
\* once each of them has arrived (and no FileStart emptied the buffer in
\* between) the file has been assembled, and every assembled file is
\* byte-identical to the source.
C4_AnyOrderAssembles ==
    /\ \A i \in DOMAIN savedFiles : savedFiles[i] = SourceFile
    /\ (/\ TotalChunks(file) > 0
        /\ hist.delivered = AllChunks
        /\ ~hist.startAfterChunk)
       => Len(savedFiles) >= 1

\* The chunks of a file of at least two chunks arrived in reverse index order
\* and the file was assembled.
C4_Witness ==
    /\ TotalChunks(file) >= 2
    /\ hist.reverse
    /\ hist.delivered = AllChunks
    /\ Len(savedFiles) = 1

\* C5: with FileStart never handled, a buffer the receiver holds carries the
\* fileName, fileSize and totalChunks embedded in the chunks, and once all
\* chunks have arrived the file has been assembled and delivered.
C5_LazyBufferFromChunk ==
    ~hist.startHandled =>
        /\ \A id \in DOMAIN fileReceiveBuffers :
              LET b == fileReceiveBuffers[id]
                  m == decodeBinaryMessage(encodeBinaryMessage(ChunkMessage(file, id, 0)))
              IN /\ b.fileName = m.fileName
                 /\ b.fileSize = m.fileSize
                 /\ b.totalChunks = m.totalChunks
        /\ (TotalChunks(file) > 0 /\ hist.delivered = AllChunks)
           => (Len(savedFiles) >= 1 /\ savedFiles[1] = SourceFile)

\* FileStart was lost, all chunks arrived and the file was delivered.
C5_Witness ==
    /\ ~hist.startHandled
    /\ hist.drops = 1
    /\ hist.chunkDrops = 0
    /\ readyState = "open"
    /\ InFlight(MESSAGE_TYPES.FILE_START) = {}
    /\ TotalChunks(file) >= 2
    /\ hist.delivered = AllChunks
    /\ Len(savedFiles) = 1

\* C6: the window stays within [MIN_WINDOW_SIZE, MAX_WINDOW_SIZE].
C6_WindowBounds ==
    /\ windowSize >= MIN_WINDOW_SIZE
    /\ windowSize <= MAX_WINDOW_SIZE

\* Acks with a high RTT sample and timeouts have brought the window of a
\* later transfer down to the floor.
C6_Witness ==
    /\ windowSize = MIN_WINDOW_SIZE
    /\ hist.windowReduced
    /\ transferNo > 1
    /\ Len(pendingChunks) > 0

\* C7: once the channel has closed during a send, the sender is aborted: the
\* watchdog is cancelled, queue and pending set are empty and the promise is
\* rejected.
C7_AbortOnClose ==
    (readyState = "closed" /\ hist.closedWhileSending)
    => (/\ promise = "rejected"
        /\ ~timeoutChecker
        /\ sendQueue = <<>>
        /\ pendingChunks = <<>>)

\* C8: the promise of a started send is eventually settled.
C8_EventuallySettled == (promise = "pending") ~> Settled

\* C9: a send in progress on an open channel whose queue and pending set are
\* empty emits FileComplete and then resolves the promise (unless the channel
\* stops being open first).
C9_CompletesWhenEmpty ==
    /\ (/\ sendState = "polling"
        /\ isSending
        /\ sendQueue = <<>>
        /\ pendingChunks = <<>>
        /\ readyState = "open")
       ~> (sendState = "completing" \/ readyState # "open")
    /\ (sendState = "completing") ~> (promise = "resolved" /\ ~isSending)
    /\ [](sendState \in {"completing", "settled"} /\ promise # "rejected"
          => hist.completes = transferNo)

\* The send ended with FileComplete emitted and the promise resolved.
C9_Witness ==
    /\ promise = "resolved"
    /\ hist.completes = 1
    /\ TotalChunks(file) >= 2

\* C10: no ReceiveBuffer stays with receivedCount equal to totalChunks: the
\* file is assembled, delivered and the buffer discarded.
C10_AssembledWhenCountReachesTotal ==
    \A id \in DOMAIN fileReceiveBuffers :
        fileReceiveBuffers[id].receivedCount # fileReceiveBuffers[id].totalChunks

\* C11: the send of a 0-byte file has totalChunks = 0 and hands the channel
\* one FileStart and then, when it completes, one FileComplete; no FileChunk
\* and no ChunkAck is ever in flight.
C11_EmptyFileStartThenComplete ==
    Len(file.bytes) = 0 =>
        /\ TotalChunks(file) = 0
        /\ \A w \in InFlight(MESSAGE_TYPES.FILE_START) : w.totalChunks = 0
        /\ InFlight(MESSAGE_TYPES.FILE_CHUNK) = {}
        /\ InFlight(MESSAGE_TYPES.CHUNK_ACK) = {}
        /\ hist.sentOnce = {}
        /\ hist.completes <= hist.starts
        /\ hist.starts <= 1
        /\ promise = "resolved" => (hist.starts = 1 /\ hist.completes = 1)
        /\ \A w \in InFlight(MESSAGE_TYPES.FILE_COMPLETE) :
              hist.starts = 1 /\ w.fileId = transferNo

\* The send of a 0-byte file has resolved with FileStart and FileComplete
\* both delivered.
C11_Witness ==
    /\ Len(file.bytes) = 0
    /\ promise = "resolved"
    /\ hist.starts = 1
    /\ hist.completes = 1
    /\ hist.drops = 0
    /\ net = EmptyBag

\* C12: a message of any kind, with a name of at most MAX_FILENAME_LENGTH,
\* that went through encodeBinaryMessage and then, undamaged, through
\* decodeBinaryMessage comes out equal to itself.
C12_RoundTrip ==
    (/\ codec.pc = "done"
     /\ ~codec.mangled
     /\ Has(codec.message, "fileName") => Len(codec.message.fileName) <= MAX_FILENAME_LENGTH)
    => codec.decoded = codec.message

\* The value the specification names for a buffer that cannot be decoded.
DecodeError == [type |-> -2]

\* The damage the claim lists: a buffer shorter than HEADER_SIZE, a type tag
\* outside MESSAGE_TYPES, a declared name length reading past the buffer end.
Malformed(w) ==
    \/ w.byteLength < HEADER_SIZE
    \/ w.type \notin {MESSAGE_TYPES[k] : k \in DOMAIN MESSAGE_TYPES}
    \/ NAME_OFFSET + w.fileNameLength > w.byteLength

\* C13: decodeBinaryMessage does not throw, and for a malformed buffer its
\* result is the DecodeError value.
C13_DecodeNeverThrows ==
    (codec.pc = "done" /\ codec.wire # EncodeThrows)
    => /\ codec.decoded # DecodeThrows
       /\ Malformed(codec.wire) => codec.decoded = DecodeError

\* C14: the delivery of a malformed message leaves the receive buffers, the
\* send queue, the pending set, the window and the current fileId as they are.
C14_MalformedDropped ==
    [][\A w \in BagToSet(net) :
          (/\ readyState = "open"
           /\ Malformed(w)
           /\ handleIncomingMessage(w, Without(w)))
          => UNCHANGED <<fileReceiveBuffers, sendQueue, pendingChunks, windowSize,
                         currentFileId>>]_vars

RECURSIVE SumLengths(_, _)
SumLengths(f, n) == IF n = 0 THEN 0 ELSE SumLengths(f, n - 1) + Len(ChunkData(f, n - 1))

RECURSIVE Concat(_, _)
Concat(f, n) == IF n = 0 THEN <<>> ELSE Concat(f, n - 1) \o ChunkData(f, n - 1)

\* C15: a file of S bytes is cut into ceil(S / CHUNK_SIZE) chunks, the queue
\* sendFileInChunks builds holds the indices 0..totalChunks-1 in order, every
\* chunk but the last has CHUNK_SIZE bytes, the last has the rest, and the
\* payload lengths sum to S (the payloads in index order are the file).
C15_ChunkArithmetic ==
    /\ [](LET S == Len(file.bytes)
              n == TotalChunks(file)
          IN /\ n * CHUNK_SIZE >= S
             /\ (n - 1) * CHUNK_SIZE < S
             /\ \A i \in 0..(n - 2) : Len(ChunkData(file, i)) = CHUNK_SIZE
             /\ n > 0 => Len(ChunkData(file, n - 1)) = S - (n - 1) * CHUNK_SIZE
             /\ SumLengths(file, n) = S
             /\ Concat(file, n) = file.bytes
             /\ SeqToSet(sendQueue) \cup PendingKeys(pendingChunks) \subseteq 0..(n - 1))
    /\ [][sendState = "preparing" /\ sendState' = "polling"
          => LET k == TotalChunks(file) - Len(sendQueue')
             IN /\ PendingKeys(pendingChunks') = 0..(k - 1)
                /\ sendQueue' = [i \in 1..Len(sendQueue') |-> k + i - 1]]_vars

\* A file of two full chunks and a shorter third one has been cut and its
\* first chunks handed to the channel.
C15_Witness ==
    /\ Len(file.bytes) = 2 * CHUNK_SIZE + 1
    /\ TotalChunks(file) = 3
    /\ sendState = "polling"
    /\ PendingKeys(pendingChunks) = {0, 1}
    /\ sendQueue = <<2>>

\* The send has stopped: its promise is settled, or the channel closed under it.
Stopped == Settled \/ (readyState = "closed" /\ hist.closedWhileSending)

\* C16: once the send has stopped the watchdog is cancelled, queue and pending
\* set are empty, no message of the transfer is handed to the channel any
\* more and no chunk is requeued.
C16_NothingAfterStop ==
    /\ [](Stopped => /\ ~timeoutChecker
                      /\ sendQueue = <<>>
                      /\ pendingChunks = <<>>)
    /\ [][Stopped => /\ hist'.starts = hist.starts
                      /\ hist'.sentOnce = hist.sentOnce
                      /\ hist'.resent = hist.resent
                      /\ hist'.completes = hist.completes
                      /\ Len(sendQueue') <= Len(sendQueue)]_vars

\* C17: a relayed offer, answer or ice-candidate reaches no socket but the one
\* registered for its toDeviceId, carries the deviceId of the socket that
\* sent it, reaches nobody when toDeviceId is not registered, and leaves the
\* registry as it is.
C17_RelayToRegisteredSocket ==
    [][relayed' # relayed =>
          /\ peers' = peers
          /\ relayed'.kind \in RelayKinds
          /\ relayed'.fromDeviceId = sockets[relayed'.sender].deviceId
          /\ IF relayed'.toDeviceId \in DOMAIN peers
             THEN relayed'.recipients \subseteq {peers[relayed'.toDeviceId].socketId}
             ELSE relayed'.recipients = {}]_vars

\* With three devices connected, one relayed a message to another and it was
\* delivered.
C17_Witness ==
    /\ Cardinality(ConnectedIn(sockets)) = 3
    /\ relayed.kind = "ice-candidate"
    /\ relayed.fromDeviceId # relayed.toDeviceId
    /\ Cardinality(relayed.recipients) = 1

\* C18: a socket is told only of sockets of its own subnet, and a relayed
\* message reaches only a socket of the sender's subnet.
C18_SameSubnetOnly ==
    /\ \A s \in DOMAIN sockets : \A t \in learned[s] :
          sockets[t].deviceId # sockets[s].deviceId
          => Subnet(sockets[t].ip) = Subnet(sockets[s].ip)
    /\ relayed # NoRelay =>
          \A t \in relayed.recipients :
             Subnet(sockets[t].ip) = Subnet(sockets[relayed.sender].ip)

\* The step is handleChunkAck of an ack for chunk k of the current transfer.
AckStep(k) ==
    \E n \in {net} \cup {Without(w) : w \in InFlight(MESSAGE_TYPES.CHUNK_ACK)} :
        handleIncomingMessage(encodeBinaryMessage(AckMessage(currentFileId, k)), n)

\* C19: within a transfer a chunk leaves the pending set either in the
\* watchdog, and then it is older than CHUNK_TIMEOUT with MAX_RETRIES
\* retries used, or by the arrival of its ChunkAck.
C19_PendingLeavesByAckOrExhaustion ==
    [][\A i \in DOMAIN pendingChunks :
          LET e == pendingChunks[i]
          IN (e.chunkIndex \notin PendingKeys(pendingChunks') /\ transferNo' = transferNo)
             => IF checkForTimeouts
                THEN e.expired /\ e.retries >= MAX_RETRIES
                ELSE AckStep(e.chunkIndex)]_vars

\* The pending entries a watchdog tick finds older than CHUNK_TIMEOUT with
\* retries left, in Map order.
TimedOut == SelectSeq(pendingChunks, LAMBDA e : e.expired /\ e.retries < MAX_RETRIES)

\* C20: a watchdog tick leaves every chunk it found timed out with retries
\* left in the pending set with one retry more and a fresh timestamp, and
\* what it leaves in the queue is the timed-out chunks followed by the chunks
\* that were waiting, less what the pump took from the front.
C20_RequeueAtFrontCountsRetries ==
    [][checkForTimeouts =>
          /\ \A i \in DOMAIN TimedOut :
                \E j \in DOMAIN pendingChunks' :
                   /\ pendingChunks'[j].chunkIndex = TimedOut[i].chunkIndex
                   /\ pendingChunks'[j].retries = TimedOut[i].retries + 1
                   /\ ~pendingChunks'[j].expired
          /\ LET all == [i \in DOMAIN TimedOut |-> TimedOut[i].chunkIndex] \o sendQueue
             IN \E k \in 0..Len(all) : sendQueue' = SubSeq(all, k + 1, Len(all))]_vars

\* C21: the pump hands no chunk to the channel while bufferedAmount is above
\* 90% of MAX_BUFFER_SIZE, whichever chunk of a pump run it is.
C21_SendsBelowWatermark == ~hist.sentAboveWatermark

C23_LostAckRecovered ==
    /\ (hist.drops >= 1) ~> (promise = "resolved" /\ hist.completes = 1)
    /\ [](hist.drops >= 1 /\ promise = "resolved" => hist.resent # {})

\* C24: the delivery of a FileChunk whose index the buffer of its fileId does
\* not hold stores the payload under that index, raises receivedCount by one
\* (the buffer is discarded when that completes and delivers the file) and
\* puts exactly one ChunkAck with the same fileId and chunkIndex in flight;
\* the delivery of a FileChunk whose index is recorded changes nothing.
C24_ChunkStoredCountedAcked ==
    [][\A w \in InFlight(MESSAGE_TYPES.FILE_CHUNK) :
          (readyState = "open" /\ handleIncomingMessage(w, Without(w))) =>
             LET m == decodeBinaryMessage(w)
                 known == m.fileId \in DOMAIN fileReceiveBuffers
                 recorded == known /\ m.chunkIndex \in DOMAIN fileReceiveBuffers[m.fileId].receivedChunks
                 count == IF known THEN fileReceiveBuffers[m.fileId].receivedCount ELSE 0
                 added == net' (-) Without(w)
             IN IF recorded
                THEN /\ UNCHANGED <<fileReceiveBuffers, savedFiles>>
                     /\ net' = Without(w)
                ELSE /\ net' = Without(w) (+) added
                     /\ BagCardinality(added) = 1
                     /\ \A a \in BagToSet(added) :
                           /\ a.type = MESSAGE_TYPES.CHUNK_ACK
                           /\ a.fileId = m.fileId
                           /\ a.chunkIndex = m.chunkIndex
                     /\ IF m.fileId \in DOMAIN fileReceiveBuffers'
                        THEN LET b == fileReceiveBuffers'[m.fileId]
                             IN /\ m.chunkIndex \in DOMAIN b.receivedChunks
                                /\ b.receivedChunks[m.chunkIndex] = m.payload
                                /\ b.receivedCount = count + 1
                                /\ UNCHANGED savedFiles
                        ELSE /\ count + 1 = m.totalChunks
                             /\ Len(savedFiles') = Len(savedFiles) + 1]_vars

\* Chunk 0 of a two-chunk file was sent twice and both copies were
\* delivered: the buffer holds it once, with receivedCount 1.
C24_Witness ==
    /\ TotalChunks(file) = 2
    /\ readyState = "open"
    /\ hist.drops = 0
    /\ 0 \in hist.resent
    /\ ~hist.startAfterChunk
    /\ \A w \in InFlight(MESSAGE_TYPES.FILE_CHUNK) : w.chunkIndex # 0
    /\ \E id \in DOMAIN fileReceiveBuffers :
          /\ fileReceiveBuffers[id].receivedCount = 1
          /\ DOMAIN fileReceiveBuffers[id].receivedChunks = {0}
    /\ savedFiles = <<>>

\* The step is the arrival of the ChunkAck of chunk k of transfer fileId.
AckArrives(fileId, k) ==
    \E n \in {net} \cup {Without(w) : w \in InFlight(MESSAGE_TYPES.CHUNK_ACK)} :
        handleIncomingMessage(encodeBinaryMessage(AckMessage(fileId, k)), n)

\* C25: the arrival of a ChunkAck of the current fileId for a pending index
\* takes that index, and no other, out of the pending set; the arrival of a
\* ChunkAck of any other fileId leaves pending set, queue, window and the
\* time of the last ack as they are.
C25_AckRemovesExactlyItsIndex ==
    [][\A fileId \in 1..MaxTransfers, k \in 0..Max(MaxAckIndex, TotalChunks(file) - 1) :
          AckArrives(fileId, k) =>
             IF fileId = currentFileId
             THEN k \in PendingKeys(pendingChunks) =>
                     PendingKeys(pendingChunks) \ PendingKeys(pendingChunks') = {k}
             ELSE UNCHANGED <<pendingChunks, sendQueue, windowSize, ackAge>>]_vars

\* The positions of a send and the moves between them: idle, preparing (the
\* file is read), polling (chunks are sent and acknowledged), completing
\* (FileComplete is out) and settled (completed or failed).
SendMoves ==
    {<<"idle", "preparing">>, <<"idle", "polling">>, <<"idle", "settled">>,
     <<"preparing", "polling">>, <<"polling", "completing">>, <<"polling", "settled">>,
     <<"completing", "settled">>}

\* C26: within a transfer FileStart is handed to the channel first, once, as
\* the send leaves idle; FileChunks are handed over only after it and before
\* FileComplete; FileComplete is handed over at most once, with nothing left
\* to send; the send moves forward only and a settled send hands over
\* nothing.
C26_StartChunksComplete ==
    /\ [](hist.starts = transferNo /\ hist.completes <= hist.starts)
    /\ [][hist'.starts # hist.starts =>
             sendState = "idle" /\ hist'.starts = hist.starts + 1]_vars
    /\ [][bufferedAmount' > bufferedAmount =>
             /\ sendState \in {"preparing", "polling"}
             /\ sendState' = "polling"
             /\ hist.starts = transferNo
             /\ hist.completes < transferNo]_vars
    /\ [][hist'.completes # hist.completes =>
             /\ hist'.completes = hist.completes + 1
             /\ hist.completes < transferNo
             /\ sendState = "polling" /\ sendState' = "completing"
             /\ sendQueue = <<>> /\ pendingChunks = <<>>]_vars
    /\ [][sendState' # sendState => <<sendState, sendState'>> \in SendMoves]_vars
    /\ [][sendState = "settled" =>
             /\ sendState' = "settled"
             /\ hist'.starts = hist.starts
             /\ hist'.completes = hist.completes
             /\ bufferedAmount' <= bufferedAmount]_vars

\* Both chunks of a file were sent, one of them again after a timeout, then
\* FileComplete, and the send has resolved.
C26_Witness ==
    /\ TotalChunks(file) = 2
    /\ hist.sentOnce = AllChunks
    /\ hist.resent # {}
    /\ hist.starts = 1
    /\ hist.completes = 1
    /\ sendState = "settled"
    /\ promise = "resolved"

\* The step delivers a FileChunk of an index not yet recorded that raises
\* receivedCount of its buffer to totalChunks.
LastChunkArrives ==
    \E w \in InFlight(MESSAGE_TYPES.FILE_CHUNK) :
        /\ readyState = "open"
        /\ handleIncomingMessage(w, Without(w))
        /\ LET m == decodeBinaryMessage(w)
               known == m.fileId \in DOMAIN fileReceiveBuffers
               count == IF known THEN fileReceiveBuffers[m.fileId].receivedCount ELSE 0
           IN /\ known => m.chunkIndex \notin DOMAIN fileReceiveBuffers[m.fileId].receivedChunks
              /\ count + 1 = m.totalChunks

\* C27: the delivery of a FileComplete leaves the ReceiveBuffers and the
\* delivered files as they are; a file is assembled and delivered in a step
\* if and only if that step is the arrival of a chunk that raises
\* receivedCount to totalChunks, whether FileComplete has arrived or not.
C27_CompleteIsAdvisory ==
    /\ [][\A w \in InFlight(MESSAGE_TYPES.FILE_COMPLETE) :
             (readyState = "open" /\ handleIncomingMessage(w, Without(w)))
             => UNCHANGED <<fileReceiveBuffers, savedFiles>>]_vars
    /\ [][savedFiles' # savedFiles <=> LastChunkArrives]_vars

\* FileComplete has arrived while the receiver's buffer still lacks a chunk
\* that is in flight.
C27_Witness ==
    /\ readyState = "open"
    /\ hist.drops = 0
    /\ hist.completes = 1
    /\ InFlight(MESSAGE_TYPES.FILE_COMPLETE) = {}
    /\ savedFiles = <<>>
    /\ \E id \in DOMAIN fileReceiveBuffers :
          /\ fileReceiveBuffers[id].totalChunks = 2
          /\ fileReceiveBuffers[id].receivedCount = 1
          /\ \E w \in InFlight(MESSAGE_TYPES.FILE_CHUNK) :
                w.chunkIndex \notin DOMAIN fileReceiveBuffers[id].receivedChunks

\* The window an ack must leave, by the class of its RTT sample: below the
\* low threshold (class 0), above the high threshold (class 2), between.
Adjusted(w, age) ==
    CASE age = 0 -> IF w + WINDOW_INCREASE > MAX_WINDOW_SIZE
                    THEN MAX_WINDOW_SIZE ELSE w + WINDOW_INCREASE
      [] age = 2 -> IF w - WINDOW_DECREASE < MIN_WINDOW_SIZE
                    THEN MIN_WINDOW_SIZE ELSE w - WINDOW_DECREASE
      [] OTHER -> w

\* C28 as stated: an ack of the current transfer adjusts the window by the
\* class of its RTT sample, and the decrease step is larger than the
\* increase step.
C28_WindowAdjustment ==
    [][\A k \in 0..MaxAckIndex :
          (currentFileId # NoFileId /\ AckArrives(currentFileId, k)) =>
             /\ windowSize' = Adjusted(windowSize, ackAge)
             /\ WINDOW_DECREASE > WINDOW_INCREASE]_vars

\* C28: an ack of the current transfer adjusts the window by the class of
\* its RTT sample, and the decrease step is smaller than the increase step.
C28_WindowAdjustmentSteps ==
    [][\A k \in 0..MaxAckIndex :
          (currentFileId # NoFileId /\ AckArrives(currentFileId, k)) =>
             /\ windowSize' = Adjusted(windowSize, ackAge)
             /\ WINDOW_DECREASE < WINDOW_INCREASE]_vars

\* Fast acks have raised the window to MAX_WINDOW_SIZE and one slow ack has
\* lowered it by the decrease step.
C28_Witness ==
    /\ windowSize = MAX_WINDOW_SIZE - WINDOW_DECREASE
    /\ hist.windowReduced
    /\ ackAge = 0
    /\ transferNo = 1

\* The chunk that arrives is a new index of its buffer, brings receivedCount
\* to totalChunks, and assembleAndSaveFile finds an index below totalChunks
\* absent.
MissingAtAssembly(fileId, chunkIndex) ==
    LET message == InboundChunk(file, fileId, chunkIndex)
        buffer == IF fileId \in DOMAIN fileReceiveBuffers
                  THEN fileReceiveBuffers[fileId]
                  ELSE NewBuffer(message.fileName, message.fileSize, message.totalChunks)
    IN /\ chunkIndex \notin DOMAIN buffer.receivedChunks
       /\ buffer.receivedCount + 1 = buffer.totalChunks
       /\ buffer.totalChunks = message.totalChunks
       /\ \E i \in 0..(buffer.totalChunks - 1) :
             i # chunkIndex /\ i \notin DOMAIN buffer.receivedChunks

\* C29: when receivedCount has reached totalChunks and assembly finds an
\* index below totalChunks absent, no file is delivered and the buffer of
\* that fileId is discarded.
C29_MissingChunkDiscardsBuffer ==
    [][\A fileId \in 1..MaxTransfers : \A chunkIndex \in 0..TotalChunks(file) :
          (MissingAtAssembly(fileId, chunkIndex) /\ InboundChunkArrives(fileId, chunkIndex)) =>
             /\ savedFiles' = savedFiles
             /\ fileId \notin DOMAIN fileReceiveBuffers']_vars

\* The buffer of fileId, or "none".
BufferOf(buffers, fileId) ==
    IF fileId \in DOMAIN buffers THEN buffers[fileId] ELSE [fileName |-> <<>>]

\* C30: a FileStart or FileChunk of fileId A leaves the buffer of every other
\* fileId B as it was: neither created, changed nor removed.
C30_OtherBuffersUntouched ==
    [][\A A \in 1..MaxTransfers : \A B \in (1..MaxTransfers) \ {A} :
          (\/ InboundStartArrives(A)
           \/ \E chunkIndex \in 0..TotalChunks(file) : InboundChunkArrives(A, chunkIndex)) =>
             BufferOf(fileReceiveBuffers', B) = BufferOf(fileReceiveBuffers, B)]_vars

\* Two inbound transfers are interleaved: both have a buffer holding chunks,
\* and a file has been assembled while the other buffer was filling.
C30_Witness ==
    /\ DOMAIN fileReceiveBuffers = {1, 2}
    /\ fileReceiveBuffers[1].receivedCount >= 1
    /\ fileReceiveBuffers[2].receivedCount >= 1
    /\ DOMAIN fileReceiveBuffers[1].receivedChunks # DOMAIN fileReceiveBuffers[2].receivedChunks
    /\ Len(savedFiles) >= 1

\* C31: FileComplete is sent and the promise resolved only when every chunk
\* index of the file has been acknowledged in this transfer, also after the
\* watchdog has deleted a pending entry whose retries were used up.
C31_CompleteOnlyWhenAllAcked ==
    /\ [][hist'.completes > hist.completes => AllChunks \subseteq hist.acked]_vars
    /\ [][(promise' = "resolved" /\ promise # "resolved") => AllChunks \subseteq hist.acked]_vars

\* The watchdog deleted a pending entry for used-up retries and the transfer
\* has completed all the same.
C31_Witness ==
    /\ hist.exhausted # {}
    /\ promise = "resolved"
    /\ AllChunks # {}

\* C32: the receiver hands the file of the transfer to saveFile at most once,
\* and once it has, no buffer of that fileId exists any more.
C32_DeliveredAtMostOnce ==
    /\ Len(savedFiles) <= 1
    /\ Len(savedFiles) >= 1 => transferNo \notin DOMAIN fileReceiveBuffers

\* C33: within one transfer no chunk is handed to the channel more than
\* MAX_RETRIES + 1 times.
C33_SendsBounded ==
    \A c \in DOMAIN hist.handed : hist.handed[c] <= MAX_RETRIES + 1

\* The number of copies of chunk k in queue q.
Copies(q, k) == Cardinality({i \in DOMAIN q : q[i] = k})

\* C34: every pending chunk has at least as many copies in the send queue as
\* its retries; when the watchdog deletes an entry for used-up retries, a
\* copy of the chunk is in the send queue.
C34_QueueHoldsRetries ==
    /\ [](\A i \in DOMAIN pendingChunks :
             Copies(sendQueue, pendingChunks[i].chunkIndex) >= pendingChunks[i].retries)
    /\ [][\A i \in DOMAIN pendingChunks :
             (checkForTimeouts /\ pendingChunks[i].retries >= MAX_RETRIES) =>
                Copies(sendQueue, pendingChunks[i].chunkIndex) >= 1]_vars

\* The watchdog has deleted the entry of a chunk for used-up retries, and
\* the copies it requeued are waiting in the send queue.
C34_Witness ==
    \E k \in hist.exhausted :
        /\ k \notin PendingKeys(pendingChunks)
        /\ Copies(sendQueue, k) >= MAX_RETRIES

\* C35: the send queue never holds more than totalChunks entries nor two
\* copies of a chunk index, and the progress the pump reports after its
\* first send, (totalChunks - queue length) / totalChunks, is not negative.
C35_QueueWithinFile ==
    /\ [](Len(sendQueue) <= TotalChunks(file))
    /\ [](\A k \in SeqToSet(sendQueue) : Copies(sendQueue, k) <= 1)
    /\ [][(PumpTimerFires /\ hist'.handed # hist.handed) =>
             TotalChunks(file) - (Len(sendQueue) - 1) >= 0]_vars

\* C36: in every buffer receivedCount is the number of chunk indices stored,
\* the indices lie in [0, totalChunks) and the count is at most totalChunks.
C36_CountIsStoredIndices ==
    \A fileId \in DOMAIN fileReceiveBuffers :
        LET buffer == fileReceiveBuffers[fileId]
        IN /\ buffer.receivedCount = Cardinality(DOMAIN buffer.receivedChunks)
           /\ DOMAIN buffer.receivedChunks \subseteq 0..(buffer.totalChunks - 1)
           /\ buffer.receivedCount <= buffer.totalChunks

\* A retransmitted chunk has arrived after the file was assembled and a new
\* buffer holds it, short of totalChunks.
C36_Witness ==
    /\ hist.resent # {}
    /\ Len(savedFiles) >= 1
    /\ \E fileId \in DOMAIN fileReceiveBuffers :
          /\ fileReceiveBuffers[fileId].receivedCount >= 1
          /\ fileReceiveBuffers[fileId].receivedCount < fileReceiveBuffers[fileId].totalChunks

\* The socket is the latest connection of its deviceId.
LatestOfDevice(s) ==
    \A t \in DOMAIN sockets : sockets[t].deviceId = sockets[s].deviceId => t <= s

\* C37: every connected socket that is the latest connection of its deviceId
\* is the socket of that deviceId's registry entry, and every registry entry
\* names a connected socket of its deviceId.
C37_RegistryMatchesSockets ==
    /\ \A s \in ConnectedIn(sockets) :
          LatestOfDevice(s) =>
             /\ sockets[s].deviceId \in DOMAIN peers
             /\ peers[sockets[s].deviceId].socketId = s
    /\ \A d \in DOMAIN peers :
          /\ peers[d].socketId \in ConnectedIn(sockets)
          /\ sockets[peers[d].socketId].deviceId = d

\* A device has reconnected with the same deviceId while its old socket was
\* connected, and another device has connected and gone.
C37_Witness ==
    \E s, t, u \in DOMAIN sockets :
        /\ s < t
        /\ sockets[s].deviceId = sockets[t].deviceId
        /\ ~sockets[s].connected
        /\ sockets[t].connected
        /\ sockets[u].deviceId \notin {"", sockets[s].deviceId}
        /\ ~sockets[u].connected

\* C38: while a transfer is in progress on an open data channel, a registry
\* broadcast caused by a device that is neither endpoint of the transfer does
\* not make the client close the channel.
C38_ChannelSurvivesRegistryUpdates ==
    [][(/\ promise = "pending"
        /\ readyState = "open"
        /\ peersUpdated
        /\ updates \ updates' \subseteq DeviceIds \ {LocalDevice, RemoteDevice})
       => readyState' = "open"]_vars

\* The end of the last byte encodeBinaryMessage writes for a header field of
\* message m, and of the last byte decodeBinaryMessage reads for a header
\* field of buffer w.
MaxOf(S) == CHOOSE x \in S : \A y \in S : y <= x

EncodeExtent(m) ==
    MaxOf({TYPE_OFFSET + 1, FILE_ID_OFFSET + FILE_ID_LENGTH}
          \cup (IF Has(m, "chunkIndex") THEN {CHUNK_INDEX_OFFSET + 4} ELSE {})
          \cup (IF Has(m, "totalChunks") THEN {TOTAL_CHUNKS_OFFSET + 4} ELSE {})
          \cup (IF Has(m, "fileSize") THEN {FILE_SIZE_OFFSET + 8} ELSE {})
          \cup (IF Has(m, "fileName")
                THEN {NAME_LENGTH_OFFSET + 2,
                      NAME_OFFSET + Min(Len(m.fileName), MAX_FILENAME_LENGTH)}
                ELSE {})
          \cup (IF Has(m, "fileHash") THEN {HASH_OFFSET + HASH_LENGTH} ELSE {}))

DecodeExtent(w) ==
    MaxOf({TYPE_OFFSET + 1, FILE_ID_OFFSET + FILE_ID_LENGTH}
          \cup (IF w.type \in {MESSAGE_TYPES.FILE_CHUNK, MESSAGE_TYPES.CHUNK_ACK}
                THEN {CHUNK_INDEX_OFFSET + 4} ELSE {})
          \cup (IF w.type \in {MESSAGE_TYPES.FILE_START, MESSAGE_TYPES.FILE_CHUNK}
                THEN {TOTAL_CHUNKS_OFFSET + 4, FILE_SIZE_OFFSET + 8, NAME_LENGTH_OFFSET + 2,
                      NAME_OFFSET + Min(w.fileNameLength, MAX_FILENAME_LENGTH)}
                ELSE {})
          \cup (IF w.type = MESSAGE_TYPES.FILE_COMPLETE
                THEN {HASH_OFFSET + HASH_LENGTH} ELSE {}))

\* C39: every header field encodeBinaryMessage writes and decodeBinaryMessage
\* reads ends inside the HEADER_SIZE bytes of the header, and the encoded
\* length is HEADER_SIZE plus the payload length, for every message kind.
C39_FieldsInsideHeader ==
    /\ codec.pc \in {"wire", "done"} => EncodeExtent(codec.message) <= HEADER_SIZE
    /\ (codec.pc = "wire" /\ ~codec.mangled) =>
          codec.wire.byteLength =
             HEADER_SIZE + (IF Has(codec.message, "payload") THEN Len(codec.message.payload) ELSE 0)
    /\ (codec.pc = "done" /\ ~codec.mangled /\ codec.wire # EncodeThrows) =>
          DecodeExtent(codec.wire) <= HEADER_SIZE

====
